---- MODULE Spec2Model ----
(***************************************************************************)
(* Entity resolution, batch orchestration and ownership-tree building of   *)
(* the charity enrichment backend (backend/app/services, backend/app/api). *)
(*                                                                         *)
(* Numbers (charity / company numbers) are strings, None is the string     *)
(* "None".  Similarity scores and confidences are hundredths (0.95 = 95).  *)
(* A nullable float is a sequence: <<>> is null, <<c>> is the value c.     *)
(* Entity ids are the positions of the rows in the entities table, the     *)
(* absent parent id is 0.                                                  *)
(***************************************************************************)
EXTENDS Integers, Sequences, FiniteSets, TLC

VARIABLES
    entities,       \* table entities: sequence of Entity rows (session view)
    resolutions,    \* table entity_resolutions: sequence of EntityResolution rows
    ownerships,     \* table entity_ownerships: sequence of EntityOwnership rows
    batch,          \* the EntityBatch row (session view)
    committed,      \* what the database holds durably (last commit)
    run,            \* the background task process_batch_background
    builders,       \* the tree-building requests in flight
    openai_client,  \* whether settings.OPENAI_API_KEY is configured
    requests,       \* history: the number of requests served
    lastPass,       \* history: the resolve_entity pass just made
    treeLog,        \* history: what each finished tree build added
    registry,       \* what the registry answers to the tree builders
    callLog         \* history: the service calls made and what they did

vars == <<entities, resolutions, ownerships, batch, committed, run, builders,
          openai_client, requests, lastPass, treeLog, registry, callLog>>

---------------------------------------------------------------------------
(* Bounds of the model *)

MaxRequests == 2      \* requests served
MaxLater == 1         \* runs scheduled while a run of the batch is scheduled
MaxDepth == 2         \* max_depth of a tree-building request: 1..MaxDepth
MaxConcurrent == 2    \* max_concurrent of a run: 1..MaxConcurrent

(* Program constants *)

max_results == 5              \* search_candidates(max_results=5)
ExactThreshold == 95          \* similarity_score >= 0.95
DirectConfidence == 100       \* confidence 1.0
ExtractionConfidence == 95    \* number_extraction, 0.95
NoId == 0                     \* parent_entity_id IS NULL

None == "None"

CharityNumbers == {"220949", "202918"}
CompanyNumbers == {"01234567", "07654321"}

---------------------------------------------------------------------------
(* The external registry *)

\* The record the registry holds for a charity number.  A trustee is given by
\* the number of the charity that bears its name, None when no charity does:
\* charity 202918 is a trustee of charity 220949.
RegistryRecord(n) ==
    [charityNumber |-> n, registeredCharityNumber |-> None,
     trustees |-> IF n = "220949" THEN <<"202918">> ELSE <<>>]

\* CharityCommissionService.get_full_charity_details: <<>> (None) when the
\* basic lookup found nothing or raised, else <<the record>>.
get_full_charity_details(n, found) ==
    IF n \in found THEN <<RegistryRecord(n)>> ELSE <<>>

parse_charity_data(data) ==
    [charity_number |-> IF data.charityNumber # None
                        THEN data.charityNumber
                        ELSE data.registeredCharityNumber,
     trustees |-> data.trustees]

---------------------------------------------------------------------------
(* Sequences *)

Take(s, n) == SubSeq(s, 1, IF Len(s) < n THEN Len(s) ELSE n)

RECURSIVE InsertDesc(_, _)
\* position of c in the stable descending order: after every element with a
\* score >= c's.
InsertDesc(sorted, c) ==
    IF sorted = <<>> THEN <<c>>
    ELSE IF Head(sorted).similarity_score >= c.similarity_score
         THEN <<Head(sorted)>> \o InsertDesc(Tail(sorted), c)
         ELSE <<c>> \o sorted

RECURSIVE SortDesc(_)
\* list.sort(key=similarity_score, reverse=True): stable
SortDesc(s) ==
    IF s = <<>> THEN <<>>
    ELSE InsertDesc(SortDesc(SubSeq(s, 1, Len(s) - 1)), s[Len(s)])

---------------------------------------------------------------------------
(* EntityResolverService: one resolution pass *)

\* The environment of one pass: what the registry and the AI answer.
\*   found  : the numbers whose full-details fetch returns a record
\*   search : the answer of search_charities, ok = FALSE when it raised
\*   ai     : the parsed JSON reply of the model, ok = FALSE when the call
\*            or the parsing raised
\*   fail   : "none", or the place where the pass raises: "parse"
\*            (parse_charity_data on the fetched record) or "flush" (db.flush)
Candidate(n, score) == [charity_number |-> n, similarity_score |-> score]

NoAnswer == [ok |-> TRUE, charities |-> <<>>]

SearchAnswers ==
    {[ok |-> FALSE, charities |-> <<>>], NoAnswer} \cup
    {[ok |-> TRUE, charities |-> cs] : cs \in
        {<<Candidate("220949", 60)>>,
         <<Candidate("220949", 96)>>,
         <<Candidate("220949", 60), Candidate("202918", 60)>>,
         <<Candidate("220949", 60), Candidate("202918", 96)>>,
         <<Candidate("202918", 96), Candidate("202918", 96)>>}}

NoReply ==
    [ok |-> FALSE, match_found |-> FALSE, selected_index |-> 0, confidence |-> 80]

\* {"match_found": false, "selected_index": null}
NoSelection ==
    [ok |-> TRUE, match_found |-> FALSE, selected_index |-> 0, confidence |-> 80]

\* {"match_found": true, "selected_index": 1, "confidence": 1.5}: the
\* confidence is whatever number the reply holds
Overconfident ==
    [ok |-> TRUE, match_found |-> TRUE, selected_index |-> 1, confidence |-> 150]

AIReplies ==
    {NoReply, NoSelection, Overconfident} \cup
    [ok : {TRUE}, match_found : {TRUE}, selected_index : 1..3, confidence : {80}]

Fails == {"none", "parse", "flush"}

Env(found, search, ai, fail) ==
    [found |-> found, search |-> search, ai |-> ai, fail |-> fail]

\* The environments of one pass.  The AI has a reply only where it can be
\* asked at all: the caller opted in, a client is configured and the search
\* has candidates to show it.
Envs(use_ai, fails) ==
    UNION {{Env(found, search, ai, fail) :
                ai \in IF use_ai /\ openai_client /\ search.charities # <<>>
                       THEN AIReplies ELSE {NoReply}}
           : found \in SUBSET CharityNumbers, search \in SearchAnswers,
             fail \in fails}

search_candidates(answer) ==
    IF ~answer.ok THEN <<>>
    ELSE Take(SortDesc(Take(answer.charities, max_results)), max_results)

\* a disambiguator that takes the first candidate when the reply names none
ai_resolve_first(candidates, reply) ==
    IF ~openai_client \/ candidates = <<>> THEN <<>>
    ELSE IF /\ reply.ok /\ reply.match_found /\ reply.selected_index # 0
            /\ reply.selected_index - 1 >= 0
            /\ reply.selected_index - 1 < Len(candidates)
         THEN <<[charity_number |-> candidates[reply.selected_index].charity_number,
                 confidence |-> reply.confidence]>>
         ELSE <<[charity_number |-> candidates[1].charity_number,
                 confidence |-> reply.confidence]>>

\* <<>> for None, else <<[charity_number, confidence]>>
ai_resolve_entity(candidates, reply) ==
    IF ~openai_client \/ candidates = <<>> THEN <<>>
    ELSE IF ~reply.ok THEN <<>>
    ELSE IF reply.match_found /\ reply.selected_index # 0
              /\ reply.selected_index - 1 >= 0
              /\ reply.selected_index - 1 < Len(candidates)
         THEN <<[charity_number |-> candidates[reply.selected_index].charity_number,
                 confidence |-> reply.confidence]>>
         ELSE <<>>

\* CharityCommissionService.extract_charity_number over original_name and
\* the string values of original_data: the upload text is fixed, so is the
\* number found in it.
extract_charity_number(entity) == entity.original_number

_update_entity_from_charity(entity, charity_data, method, confidence) ==
    [entity EXCEPT !.entity_type = "charity",
                   !.charity_number = charity_data.charity_number,
                   !.resolution_status = "matched",
                   !.resolution_confidence = <<confidence>>,
                   !.resolution_method = method,
                   !.trustees = charity_data.trustees]

NewResolution(entity_id, candidate) ==
    [entity_id |-> entity_id, charity_number |-> candidate.charity_number,
     is_selected |-> FALSE]

\* a stage that leaves the rows as they are
MarkNone(rows, entity_id, number) == rows

\* update(EntityResolution).where(entity_id == ..).where(charity_number == ..)
\*     .values(is_selected=True)
MarkSelected(rows, entity_id, number) ==
    [i \in DOMAIN rows |->
        IF rows[i].entity_id = entity_id /\ rows[i].charity_number = number
        THEN [rows[i] EXCEPT !.is_selected = TRUE]
        ELSE rows[i]]

\* The outcome of a pass: the entity and the rows as the session holds them,
\* whether the pass raised, the stage that ended it, whether the search ran
\* and with how many candidates, whether the AI was called, and what the
\* pass did to the rows of the entity, in the order in which it did it.
Outcome(entity, rows, raised, stage, searched, n, ai_called) ==
    [entity |-> entity, resolutions |-> rows, raised |-> raised,
     stage |-> stage, searched |-> searched, n_candidates |-> n,
     ai_called |-> ai_called, writes |-> <<>>]

\* self.db.add(resolution), and the update that sets is_selected
Write(op, number) == [op |-> op, charity_number |-> number]

\* rows that are written when the stages have run
WrittenAfter(ops, outcome) == [outcome EXCEPT !.writes = @ \o ops]

\* what a part of the pass did to the rows, and then what the rest of the
\* pass did
WrittenBefore(ops, outcome) == [outcome EXCEPT !.writes = ops \o @]

\* parse_charity_data, _update_entity_from_charity and its flush
ApplyDetails(entity, data, method, confidence, fail) ==
    IF fail = "parse" THEN [entity |-> entity, raised |-> TRUE]
    ELSE [entity |-> _update_entity_from_charity(
                        entity, parse_charity_data(data), method, confidence),
          raised |-> fail = "flush"]

\* a fallback that asks for a review whatever the number of candidates
FallbackToReview(entity, id, rows, candidates, env, ai_called) ==
    LET e == [entity EXCEPT
                 !.resolution_status = "manual_review",
                 !.resolution_confidence = <<candidates[1].similarity_score>>,
                 !.resolution_method = "needs_review"]
    IN Outcome(e, rows, env.fail = "flush", "fallback", TRUE,
               Len(candidates), ai_called)

\* resolve_entity, lines 352-371
Fallback(entity, id, rows, candidates, env, ai_called) ==
    LET e == [entity EXCEPT
                 !.resolution_status =
                     IF Len(candidates) > 1 THEN "multiple_matches"
                     ELSE "manual_review",
                 !.resolution_confidence = <<candidates[1].similarity_score>>,
                 !.resolution_method = "needs_review"]
    IN Outcome(e, rows, env.fail = "flush", "fallback", TRUE,
               Len(candidates), ai_called)

\* resolve_entity, lines 317-350
AIStage(entity, id, rows, candidates, env, use_ai) ==
    IF use_ai /\ openai_client
    THEN LET ai_result == ai_resolve_entity(candidates, env.ai)
         IN IF ai_result # <<>>
            THEN LET charity_data ==
                         get_full_charity_details(ai_result[1].charity_number, env.found)
                 IN IF charity_data # <<>>
                    THEN LET a == ApplyDetails(entity, charity_data[1], "ai_match",
                                               ai_result[1].confidence, env.fail)
                         IN WrittenBefore(
                                IF a.raised THEN <<>>
                                ELSE <<Write("select", ai_result[1].charity_number)>>,
                                Outcome(a.entity,
                                    IF a.raised THEN rows
                                    ELSE MarkSelected(rows, id, ai_result[1].charity_number),
                                    a.raised, "ai_match", TRUE, Len(candidates), TRUE))
                    ELSE Fallback(entity, id, rows, candidates, env, TRUE)
            ELSE Fallback(entity, id, rows, candidates, env, TRUE)
    ELSE Fallback(entity, id, rows, candidates, env, FALSE)

\* the stages in the other order: the AI is asked first, the shortcut is
\* taken when the AI selected nothing
ExactAfterAI(entity, id, rows, candidates, env, use_ai) ==
    LET best_match == candidates[1]
        charity_data == get_full_charity_details(best_match.charity_number, env.found)
        r == AIStage(entity, id, rows, candidates, env, use_ai)
    IN IF /\ r.stage = "fallback"
          /\ best_match.similarity_score >= ExactThreshold
          /\ charity_data # <<>>
       THEN LET a == ApplyDetails(entity, charity_data[1], "exact_match",
                                  best_match.similarity_score, env.fail)
            IN Outcome(a.entity,
                       IF a.raised THEN rows
                       ELSE MarkSelected(rows, id, best_match.charity_number),
                       a.raised, "exact_match", TRUE, Len(candidates), r.ai_called)
       ELSE r

\* resolve_entity, lines 293-315
ExactStage(entity, id, rows, candidates, env, use_ai) ==
    LET best_match == candidates[1]
        charity_data == get_full_charity_details(best_match.charity_number, env.found)
    IN IF best_match.similarity_score >= ExactThreshold /\ charity_data # <<>>
       THEN LET a == ApplyDetails(entity, charity_data[1], "exact_match",
                                  best_match.similarity_score, env.fail)
            IN WrittenBefore(
                   IF a.raised THEN <<>>
                   ELSE <<Write("select", best_match.charity_number)>>,
                   Outcome(a.entity,
                       IF a.raised THEN rows
                       ELSE MarkSelected(rows, id, best_match.charity_number),
                       a.raised, "exact_match", TRUE, Len(candidates), FALSE))
       ELSE AIStage(entity, id, rows, candidates, env, use_ai)

\* resolve_entity, lines 265-291
SearchStage(entity, id, rows, env, use_ai) ==
    LET candidates == search_candidates(env.search)
    IN IF candidates = <<>>
       THEN Outcome([entity EXCEPT !.resolution_status = "no_match"], rows,
                    env.fail = "flush", "no_match", TRUE, 0, FALSE)
       ELSE WrittenBefore(
                [i \in 1..Len(candidates) |->
                    Write("add", candidates[i].charity_number)],
                ExactStage(entity, id,
                           rows \o [i \in 1..Len(candidates) |->
                                       NewResolution(id, candidates[i])],
                           candidates, env, use_ai))

\* resolve_entity, lines 241-263
ExtractionStage(entity, id, rows, env, use_ai) ==
    LET extracted_number == extract_charity_number(entity)
        charity_data == get_full_charity_details(extracted_number, env.found)
    IN IF extracted_number # None /\ charity_data # <<>>
       THEN LET a == ApplyDetails(entity, charity_data[1], "number_extraction",
                                  ExtractionConfidence, env.fail)
            IN Outcome(a.entity, rows, a.raised, "number_extraction", FALSE, 0, FALSE)
       ELSE SearchStage(entity, id, rows, env, use_ai)

\* a resolver that starts from the number in the name
resolve_entity_from_name(entity, id, rows, env, use_ai) ==
    ExtractionStage(entity, id, rows, env, use_ai)

\* resolve_entity, lines 228-239, and the stages after it
resolve_entity(entity, id, rows, env, use_ai) ==
    LET charity_data == get_full_charity_details(entity.charity_number, env.found)
    IN IF entity.charity_number # None /\ charity_data # <<>>
       THEN LET a == ApplyDetails(entity, charity_data[1], "direct_lookup",
                                  DirectConfidence, env.fail)
            IN Outcome(a.entity, rows, a.raised, "direct_lookup", FALSE, 0, FALSE)
       ELSE ExtractionStage(entity, id, rows, env, use_ai)


---------------------------------------------------------------------------
(* Tables and their rows *)

\* Entity(...) as create_batch stores an uploaded row
UploadedEntity(original_number) ==
    [original_number |-> original_number, entity_type |-> "unknown",
     charity_number |-> None, company_number |-> None,
     resolution_status |-> "pending", resolution_confidence |-> <<>>,
     resolution_method |-> None, parent_entity_id |-> NoId,
     ownership_level |-> 0, trustees |-> <<>>]

\* EntityBatch(...) as create_batch stores it
UploadedBatch(n, status) ==
    [status |-> status, total_records |-> n, processed_records |-> 0,
     matched_records |-> 0, failed_records |-> 0, error_message |-> FALSE]

\* What a commit makes durable, and what a rollback brings back.
Snapshot(e, r, o, b) ==
    [entities |-> e, resolutions |-> r, ownerships |-> o, batch |-> b]

IdleRun ==
    [pc |-> "idle", use_ai |-> FALSE, queue |-> <<>>, eligible |-> {},
     processed |-> 0, matched |-> 0, failed |-> 0, already_matched |-> 0,
     done |-> <<>>, session_ok |-> TRUE, ended |-> FALSE,
     at_start |-> <<>>, in_flight |-> {}, later |-> <<>>]

\* the sessions of the tree-building requests
Sessions == {1, 2}

IdleBuilder ==
    [pc |-> "idle", root |-> NoId, max_depth |-> 0, stack |-> <<>>,
     visited_charities |-> {}, visited_companies |-> {},
     child |-> NoId, create |-> None, number |-> None,
     fresh_entities |-> {}, fresh_ownerships |-> {}, began |-> 0,
     direction |-> "down", up_pending |-> FALSE, nodes |-> <<>>,
     via |-> <<>>, depths |-> <<>>, expanded |-> <<>>, skipped |-> {},
     max_depth_reached |-> 0, registry_calls |-> 0,
     seeded |-> [charities |-> {}, companies |-> {}],
     roots |-> <<>>, carried |-> [entities |-> {}, ownerships |-> {}]]

\* How the AI fails a pass that opted in: no client is configured, the call
\* or the parsing of its reply raised, the reply selects nothing, or its
\* index is outside the candidate list.  None when it names a candidate.
AIFailure(candidates, reply) ==
    IF ~openai_client THEN "unavailable"
    ELSE IF ~reply.ok THEN "raised"
    ELSE IF ~reply.match_found \/ reply.selected_index = 0 THEN "no_selection"
    ELSE IF reply.selected_index \notin 1..Len(candidates) THEN "index"
    ELSE None

NoPass ==
    [id |-> NoId, in_batch |-> FALSE, raised |-> FALSE, flushed |-> TRUE,
     stage |-> None, n_candidates |-> 0, rows_before |-> 0,
     first_ok |-> None, fuzzy |-> FALSE, failed_before |-> 0,
     matched_before |-> 0, search_failed |-> FALSE, best |-> <<>>,
     selected_before |-> 0, use_ai |-> FALSE, ai_called |-> FALSE,
     ai_failure |-> None, writes |-> <<>>]

\* History of a pass over entity id: besides what the pass did, the first
\* stage in the order direct lookup, number extraction, exact match, AI to
\* which the environment offered the details of its number, whether the
\* search offered a candidate above the threshold whose details it also
\* offered, the number of rows the entity had before the pass, the counters
\* of the run before the pass, whether the name search of the pass failed,
\* the top-ranked candidate of the search when it ran and found one, the
\* number of selected rows the entity had before the pass, the use_ai the
\* pass was given, whether it called ai_resolve_entity, how the AI failed a
\* pass that came to it, and what the pass did to the rows, in order.
PassRecord(id, entity, env, use_ai, r, in_batch, flushed) ==
    LET candidates == search_candidates(env.search)
        ai == ai_resolve_entity(candidates, env.ai)
    IN [id |-> id, in_batch |-> in_batch, raised |-> r.raised,
        flushed |-> flushed, stage |-> r.stage, n_candidates |-> r.n_candidates,
        rows_before |-> Cardinality({i \in DOMAIN resolutions :
                                        resolutions[i].entity_id = id}),
        first_ok |->
            IF entity.charity_number \in env.found THEN "direct_lookup"
            ELSE IF entity.original_number \in env.found THEN "number_extraction"
            ELSE IF /\ candidates # <<>>
                    /\ candidates[1].similarity_score >= ExactThreshold
                    /\ candidates[1].charity_number \in env.found
                 THEN "exact_match"
            ELSE IF use_ai /\ ai # <<>> /\ ai[1].charity_number \in env.found
                 THEN "ai_match"
            ELSE None,
        fuzzy |-> /\ candidates # <<>>
                  /\ candidates[1].similarity_score >= ExactThreshold
                  /\ candidates[1].charity_number \in env.found,
        failed_before |-> run.failed,
        matched_before |-> run.matched,
        search_failed |-> r.searched /\ ~env.search.ok,
        best |-> IF r.searched /\ candidates # <<>>
                 THEN <<candidates[1]>> ELSE <<>>,
        selected_before |->
            Cardinality({i \in DOMAIN resolutions :
                            /\ resolutions[i].entity_id = id
                            /\ resolutions[i].is_selected}),
        use_ai |-> use_ai,
        ai_called |-> r.ai_called,
        ai_failure |-> IF use_ai /\ r.stage \in {"ai_match", "fallback"}
                       THEN AIFailure(candidates, env.ai) ELSE None,
        writes |-> r.writes]

---------------------------------------------------------------------------
(* The states a batch of two uploaded rows is in when a request arrives.    *)
(* Each is what the operations below leave behind:                          *)
(*   Uploaded     create_batch without auto_process                         *)
(*   Processed    a run that matched row 1 by the number in its name and    *)
(*                found no candidate for row 2                              *)
(*   Rejected     Processed, then row 1 rejected by confirm_resolution      *)
(*                without arguments                                         *)
(*   Confirmed    Processed, then row 1 confirmed by confirm_resolution     *)
(*                with its number                                           *)
(*   Reviewed     a run that found two weak candidates for row 1 and none   *)
(*                for row 2                                                 *)
(* ProcessedThree is Processed for an upload of three rows.                 *)

Quiet(found, search) == Env(found, search, NoReply, "none")

TwoWeak ==
    [ok |-> TRUE, charities |-> <<Candidate("220949", 60), Candidate("202918", 60)>>]

Uploaded(original_number) ==
    Snapshot(<<UploadedEntity(original_number), UploadedEntity(None)>>,
             <<>>, <<>>, UploadedBatch(2, "uploaded"))

Processed ==
    LET e1 == ExtractionStage(UploadedEntity("220949"), 1, <<>>,
                              Quiet({"220949"}, NoAnswer), FALSE).entity
        e2 == SearchStage(UploadedEntity(None), 2, <<>>,
                          Quiet({}, NoAnswer), FALSE).entity
    IN Snapshot(<<e1, e2>>, <<>>, <<>>,
                [UploadedBatch(2, "completed") EXCEPT !.processed_records = 2,
                                                      !.matched_records = 1])

Rejected ==
    [Processed EXCEPT !.entities[1].resolution_status = "rejected"]

\* Processed, then row 1 confirmed by confirm_resolution with its number
Confirmed ==
    [Processed EXCEPT !.entities[1] =
        [_update_entity_from_charity(
             Processed.entities[1], parse_charity_data(RegistryRecord("220949")),
             "manual_confirm", DirectConfidence)
         EXCEPT !.resolution_status = "confirmed"]]

\* Processed with a third row for which no candidate was found either
ProcessedThree ==
    [Processed EXCEPT !.entities = Append(@, Processed.entities[2]),
                      !.batch.total_records = 3,
                      !.batch.processed_records = 3]

Reviewed ==
    LET r1 == SearchStage(UploadedEntity(None), 1, <<>>, Quiet({}, TwoWeak), FALSE)
        e2 == SearchStage(UploadedEntity(None), 2, <<>>,
                          Quiet({}, NoAnswer), FALSE).entity
    IN Snapshot(<<r1.entity, e2>>, r1.resolutions, <<>>,
                [UploadedBatch(2, "completed") EXCEPT !.processed_records = 2])

\* the registry as the resolver sees it: it lists no subsidiaries
NoSubsidiaries ==
    [subsidiaries |-> [n \in CharityNumbers |-> <<>>], found |-> CharityNumbers]

InitFrom(states, clients, registries) ==
    /\ \E s \in states :
        /\ entities = s.entities
        /\ resolutions = s.resolutions
        /\ ownerships = s.ownerships
        /\ batch = s.batch
        /\ committed = s
    /\ run = IdleRun
    /\ builders = [p \in Sessions |-> IdleBuilder]
    /\ openai_client \in clients
    /\ requests = 0
    /\ lastPass = NoPass
    /\ treeLog = <<>>
    /\ registry \in registries
    /\ callLog = <<>>

Commit ==
    committed' = Snapshot(entities', resolutions', ownerships', batch')

---------------------------------------------------------------------------
(* Requests on one entity: api/entities.py.  Each runs in its own session   *)
(* and commits when the request ends (database.get_db); a request that      *)
(* raises is rolled back and leaves the tables as they were.                *)

\* re_resolve_entity, lines 376-380
ResetEntity(entity) ==
    [entity EXCEPT !.resolution_status = "pending",
                   !.charity_number = None,
                   !.resolution_confidence = <<>>]

\* POST /{entity_id}/re-resolve
re_resolve_entity(id, use_ai) ==
    /\ run.pc = "idle"
    /\ requests < MaxRequests
    /\ id \in DOMAIN entities
    /\ \E env \in Envs(use_ai, {"none"}) :
        LET r == resolve_entity(ResetEntity(entities[id]), id, resolutions, env, use_ai)
        IN /\ entities' = [entities EXCEPT ![id] = r.entity]
           /\ resolutions' = r.resolutions
           /\ lastPass' = PassRecord(id, ResetEntity(entities[id]), env, use_ai, r,
                                     FALSE, TRUE)
    /\ requests' = requests + 1
    /\ UNCHANGED <<ownerships, batch, run, builders, openai_client, treeLog,
                   registry, callLog>>
    /\ Commit

\* a lookup that returns some row when there is none of the id
LookupOrFirst(table, id) ==
    IF id \in DOMAIN table THEN <<table[id]>> ELSE <<table[1]>>

\* result.scalar_one_or_none() of a select by primary key
Lookup(table, id) == IF id \in DOMAIN table THEN <<table[id]>> ELSE <<>>

\* the tables as one value
Tables == Snapshot(entities, resolutions, ownerships, batch)

\* History of a service call: the operation, its id argument, whether the
\* row of that id was missing, whether the call raised and whether it
\* changed a table; for confirm_resolution also the charity number it
\* resolved, whether neither a resolution id nor a number was given, and
\* the entity it returned.
Call(op, id, missing, raised, changed) ==
    [op |-> op, id |-> id, missing |-> missing, raised |-> raised,
     changed |-> changed, charity_num |-> None, neither |-> FALSE,
     returned |-> <<>>]

\* EntityResolverService.confirm_resolution, lines 615-643, for the entity
\* found.  resolution_id 0 and charity_number None stand for an absent
\* argument.
confirm_resolution(entity, resolution_id, charity_number, found) ==
    LET resolution == IF resolution_id \in DOMAIN resolutions
                      THEN <<resolutions[resolution_id]>> ELSE <<>>
        charity_num == IF resolution_id # 0 /\ resolution # <<>>
                       THEN resolution[1].charity_number
                       ELSE charity_number
        rows == IF resolution_id # 0 /\ resolution # <<>>
                THEN [resolutions EXCEPT ![resolution_id].is_selected = TRUE]
                ELSE resolutions
        charity_data == get_full_charity_details(charity_num, found)
        updated ==
            IF charity_num # None
            THEN IF charity_data # <<>>
                 THEN [_update_entity_from_charity(
                           entity, parse_charity_data(charity_data[1]),
                           "manual_confirm", DirectConfidence)
                       EXCEPT !.resolution_status = "confirmed"]
                 ELSE entity
            ELSE [entity EXCEPT !.resolution_status = "rejected"]
    IN [entity |-> updated, resolutions |-> rows, charity_num |-> charity_num]


\* EntityResolverService.confirm_resolution, lines 609-643, called in the
\* session of a request that commits when the call returns and is rolled
\* back when it raises: without the entity the call raises
confirm_resolution_call(entity_id, resolution_id, charity_number) ==
    /\ run.pc = "idle"
    /\ \A p \in Sessions : builders[p].pc = "idle"
    /\ requests < MaxRequests
    /\ \E found \in SUBSET CharityNumbers :
        LET entity == Lookup(entities, entity_id)
            c == confirm_resolution(entity[1], resolution_id, charity_number, found)
        IN /\ entities' = IF entity = <<>> THEN entities
                          ELSE [i \in DOMAIN entities |->
                                   IF i = entity_id THEN c.entity ELSE entities[i]]
           /\ resolutions' = IF entity = <<>> THEN resolutions ELSE c.resolutions
           /\ callLog' = Append(callLog,
                  IF entity = <<>>
                  THEN Call("confirm_resolution", entity_id,
                            entity_id \notin DOMAIN entities, TRUE, FALSE)
                  ELSE [Call("confirm_resolution", entity_id,
                             entity_id \notin DOMAIN entities, FALSE,
                             <<entities', resolutions'>> # <<entities, resolutions>>)
                        EXCEPT !.charity_num = c.charity_num,
                               !.neither = (resolution_id = 0 /\ charity_number = None),
                               !.returned = <<c.entity>>])
    /\ requests' = requests + 1
    /\ lastPass' = NoPass
    /\ UNCHANGED <<ownerships, batch, run, builders, openai_client, treeLog,
                   registry>>
    /\ Commit

\* POST /{entity_id}/confirm, lines 295-317: an entity of the user
confirm_entity_resolution(id, resolution_id, charity_number) ==
    /\ id \in DOMAIN entities
    /\ confirm_resolution_call(id, resolution_id, charity_number)

InitRequests == InitFrom({Uploaded(None), Reviewed}, BOOLEAN, {NoSubsidiaries})

NextRequests ==
    \/ \E id \in DOMAIN entities, use_ai \in BOOLEAN : re_resolve_entity(id, use_ai)
    \/ \E id \in DOMAIN entities, resolution_id \in 0..(Len(resolutions) + 1),
          charity_number \in CharityNumbers \cup {None} :
            confirm_entity_resolution(id, resolution_id, charity_number)

SpecRequests == InitRequests /\ [][NextRequests]_vars

\* Passes alone: the re-resolve requests, in which nothing fails but what
\* the registry and the AI answer.
NextPasses ==
    \E id \in DOMAIN entities, use_ai \in BOOLEAN : re_resolve_entity(id, use_ai)

SpecPasses == InitRequests /\ [][NextPasses]_vars

---------------------------------------------------------------------------
(* A batch run: api/batches.py and EntityResolverService.process_batch.     *)
(* The request commits and schedules process_batch_background, which runs   *)
(* in one session of its own (get_db_context).  Once a statement or a flush *)
(* of that session has raised, its transaction is inactive and every later  *)
(* statement, flush and commit raises until the rollback at the end:        *)
(* run.session_ok.  Runs are requested without ownership trees.             *)

\* outcome of a database call of the run's session
DbCall == IF run.session_ok THEN BOOLEAN ELSE {FALSE}

\* a selection that takes the entities without a match as well
EligibleOrUnmatched(e) ==
    e.resolution_status \in {"pending", "manual_review", "multiple_matches",
                             "no_match"}

\* process_batch, lines 449-459
Eligible(e) ==
    e.resolution_status \in {"pending", "manual_review", "multiple_matches"}

RECURSIVE SelectIds(_, _)
\* the ids of the eligible rows, in table order, from row i on
SelectIds(rows, i) ==
    IF i > Len(rows) THEN <<>>
    ELSE (IF Eligible(rows[i]) THEN <<i>> ELSE <<>>) \o SelectIds(rows, i + 1)

\* background_tasks.add_task(process_batch_background, ...)
Schedule(use_ai) == [IdleRun EXCEPT !.pc = "start", !.use_ai = use_ai]

\* A request for a run arrives when no run of the batch is scheduled, or when
\* one is scheduled and its task has not begun (the tables hold nothing
\* uncommitted then).
Arrives ==
    /\ ~run.ended
    /\ \/ run.pc = "idle"
       \/ run.pc = "start" /\ Len(run.later) < MaxLater

\* add_task when the batch has the given status: the first task is the run
\* that is followed, a task added while that one is scheduled is kept with
\* the status the batch had
ScheduleLater(use_ai, status) ==
    IF run.pc = "idle" THEN Schedule(use_ai)
    ELSE [run EXCEPT !.later = Append(@, status)]

\* POST /{batch_id}/process
process_batch_endpoint(use_ai) ==
    /\ Arrives
    /\ batch.status # "processing"
    /\ batch' = [batch EXCEPT !.status = "processing"]
    /\ run' = ScheduleLater(use_ai, batch.status)
    /\ lastPass' = NoPass
    /\ UNCHANGED <<entities, resolutions, ownerships, builders, openai_client,
                   requests, treeLog, registry, callLog>>
    /\ Commit

\* POST /{batch_id}/reprocess
reprocess_failed_entities ==
    /\ Arrives
    /\ entities' = [i \in DOMAIN entities |->
                       IF entities[i].resolution_status \in {"no_match", "rejected"}
                       THEN [entities[i] EXCEPT !.resolution_status = "pending"]
                       ELSE entities[i]]
    /\ run' = ScheduleLater(TRUE, batch.status)
    /\ lastPass' = NoPass
    /\ UNCHANGED <<resolutions, ownerships, batch, builders, openai_client,
                   requests, treeLog, registry, callLog>>
    /\ Commit

\* process_batch, lines 574-584: the handler of the outer try
BatchExcept(b) == [b EXCEPT !.status = "failed", !.error_message = TRUE]

\* process_batch, lines 442-487: up to the first iteration of the loop
process_batch_begin ==
    /\ run.pc = "start"
    /\ \E flushed \in DbCall, selected \in DbCall, emptied \in DbCall :
        LET started == [batch EXCEPT !.status = "processing"]
            began == [run EXCEPT !.at_start = entities]
            queue == SelectIds(entities, 1)
            already_matched ==
                Cardinality({i \in DOMAIN entities :
                                entities[i].resolution_status = "matched"})
        IN IF ~flushed
           THEN /\ batch' = started
                /\ run' = [began EXCEPT !.pc = "handler", !.session_ok = FALSE]
           ELSE IF ~selected
           THEN /\ batch' = BatchExcept(started)
                /\ run' = [began EXCEPT !.pc = "handler", !.session_ok = FALSE]
           ELSE IF queue = <<>>
           THEN /\ batch' = IF emptied THEN [started EXCEPT !.status = "completed"]
                           ELSE BatchExcept([started EXCEPT !.status = "completed"])
                /\ run' = [began EXCEPT !.session_ok = emptied,
                                      !.pc = IF emptied THEN "resolved" ELSE "handler"]
           ELSE /\ batch' = [started EXCEPT !.total_records = Len(entities)]
                /\ run' = [began EXCEPT !.pc = "loop", !.queue = queue,
                                      !.eligible = {queue[i] : i \in DOMAIN queue},
                                      !.already_matched = already_matched,
                                      !.matched = already_matched]
    /\ lastPass' = NoPass
    /\ UNCHANGED <<entities, resolutions, ownerships, committed, builders,
                   openai_client, requests, treeLog, registry, callLog>>

\* process_batch, lines 520-534
RecordFailed(entity) == [entity EXCEPT !.resolution_status = "manual_review"]

\* process_batch, lines 506-507
MatchedAfter(matched, entity, raised) ==
    IF ~raised /\ entity.resolution_status = "matched" THEN matched + 1 ELSE matched

\* process_batch, line 534
FailedAfter(failed, raised) == IF raised THEN failed + 1 ELSE failed

\* progress that counts the entities of this run only
ProcessedInRun(already_matched, processed) == processed

\* process_batch, line 538
ProcessedRecords(already_matched, processed) == already_matched + processed

\* process_batch, line 502: the calls of resolve_entity that have been made
\* and have not returned or raised
Started(in_flight, id) == in_flight \cup {id}

\* a call that is not awaited before the next one is made
StillRunning(in_flight, id) == in_flight

\* process_batch, line 502: the loop awaits the call before it goes on
Finished(in_flight, id) == in_flight \ {id}

\* process_batch, lines 491-502: the loop takes the next entity and calls
\* resolve_entity
resolve_entity_call ==
    /\ run.pc = "loop"
    /\ run' = [run EXCEPT !.pc = "resolving",
                          !.in_flight = Started(run.in_flight, Head(run.queue))]
    /\ lastPass' = NoPass
    /\ UNCHANGED <<entities, resolutions, ownerships, batch, committed, builders,
                   openai_client, requests, treeLog, registry, callLog>>

\* process_batch, lines 502-550: the call returns or raises and the iteration
\* ends.  A flush that raised inside resolve_entity leaves the session
\* inactive, so the flush of the finally block raises as well.
process_batch_record ==
    /\ run.pc = "resolving"
    /\ LET id == Head(run.queue)
       IN \E env \in Envs(run.use_ai, Fails) :
           LET r == resolve_entity(entities[id], id, resolutions, env, run.use_ai)
               entity == IF r.raised THEN RecordFailed(r.entity) ELSE r.entity
               matched == MatchedAfter(run.matched, r.entity, r.raised)
               failed == FailedAfter(run.failed, r.raised)
               processed == run.processed + 1
               counted == [batch EXCEPT
                              !.processed_records =
                                  ProcessedRecords(run.already_matched, processed),
                              !.matched_records = matched,
                              !.failed_records = failed]
           IN \E flushed \in IF r.raised /\ env.fail = "flush"
                             THEN {FALSE} ELSE BOOLEAN :
               /\ entities' = [entities EXCEPT ![id] = entity]
               /\ resolutions' = r.resolutions
               /\ batch' = IF flushed THEN counted ELSE BatchExcept(counted)
               /\ run' = [run EXCEPT
                             !.queue = Tail(run.queue),
                             !.processed = processed,
                             !.matched = matched,
                             !.failed = failed,
                             !.done = Append(run.done,
                                             [id |-> id, raised |-> r.raised,
                                              status |-> entity.resolution_status,
                                              flush |->
                                                  IF flushed THEN "done"
                                                  ELSE IF r.raised /\ env.fail = "flush"
                                                  THEN "inactive"
                                                  ELSE "failed"]),
                             !.session_ok = flushed,
                             !.in_flight = Finished(run.in_flight, id),
                             !.pc = IF ~flushed THEN "handler"
                                    ELSE IF Tail(run.queue) = <<>> THEN "finish"
                                    ELSE "loop"]
               /\ lastPass' = PassRecord(id, entities[id], env, run.use_ai, r,
                                         TRUE, flushed)
    /\ UNCHANGED <<ownerships, committed, builders, openai_client, requests,
                   treeLog, registry, callLog>>

\* process_batch, lines 556-565
FinalStatus(failed, matched) ==
    IF failed > 0 /\ matched = 0 THEN "failed"
    ELSE IF failed > 0 THEN "partial"
    ELSE "completed"

\* process_batch, lines 556-590: after the loop.  closed = FALSE: the close of
\* the registry client raises in the finally block.
process_batch_finish ==
    /\ run.pc = "finish"
    /\ \E flushed \in DbCall, closed \in BOOLEAN :
        LET final == [batch EXCEPT !.status = FinalStatus(run.failed, run.matched)]
        IN /\ batch' = IF flushed THEN final ELSE BatchExcept(final)
           /\ run' = [run EXCEPT !.session_ok = flushed,
                                 !.pc = IF flushed /\ closed THEN "resolved"
                                        ELSE "handler"]
    /\ lastPass' = NoPass
    /\ UNCHANGED <<entities, resolutions, ownerships, committed, builders,
                   openai_client, requests, treeLog, registry, callLog>>

\* process_batch_background, lines 305-321: process_batch returned
process_batch_background ==
    /\ run.pc = "resolved"
    /\ run' = [run EXCEPT !.pc = "exit"]
    /\ lastPass' = NoPass
    /\ UNCHANGED <<entities, resolutions, ownerships, batch, committed, builders,
                   openai_client, requests, treeLog, registry, callLog>>

\* _handle_batch_processing_error, lines 352-382: its own failure is logged
_handle_batch_processing_error ==
    /\ run.pc = "handler"
    /\ \E updated \in DbCall :
        /\ batch' = IF updated THEN BatchExcept(batch) ELSE batch
        /\ committed' = IF updated
                        THEN Snapshot(entities, resolutions, ownerships, batch')
                        ELSE committed
        /\ run' = [run EXCEPT !.pc = "exit", !.session_ok = updated]
    /\ lastPass' = NoPass
    /\ UNCHANGED <<entities, resolutions, ownerships, builders, openai_client,
                   requests, treeLog, registry, callLog>>

\* get_db_context, lines 50-57, and process_batch_background, lines 326-335:
\* commit, or roll back and log
get_db_context ==
    /\ run.pc = "exit"
    /\ \E done \in DbCall :
        IF done
        THEN /\ committed' = Snapshot(entities, resolutions, ownerships, batch)
             /\ UNCHANGED <<entities, resolutions, ownerships, batch>>
        ELSE /\ entities' = committed.entities
             /\ resolutions' = committed.resolutions
             /\ ownerships' = committed.ownerships
             /\ batch' = committed.batch
             /\ UNCHANGED committed
    /\ run' = [run EXCEPT !.pc = "idle", !.session_ok = TRUE, !.ended = TRUE]
    /\ lastPass' = NoPass
    /\ UNCHANGED <<builders, openai_client, requests, treeLog, registry, callLog>>

Init ==
    InitFrom({Uploaded(None), Uploaded("220949"), Processed, Rejected,
              Confirmed, ProcessedThree},
             BOOLEAN, {NoSubsidiaries})

Next ==
    \/ \E use_ai \in BOOLEAN : process_batch_endpoint(use_ai)
    \/ reprocess_failed_entities
    \/ process_batch_begin
    \/ resolve_entity_call
    \/ process_batch_record
    \/ process_batch_finish
    \/ process_batch_background
    \/ _handle_batch_processing_error
    \/ get_db_context

Spec == Init /\ [][Next]_vars

---------------------------------------------------------------------------
(* Properties of a resolution pass and of a batch run (Spec) *)

\* C1: a pass that does not raise ends in the earliest stage, in the order
\* direct lookup, number extraction, exact match, AI, that succeeds for the
\* entity, and the entity carries that stage's method with status matched;
\* a direct lookup that succeeds gives confidence 1.0 whatever the search or
\* the AI would have found.  With no stage succeeding the pass ends in
\* no_match or in the review fallback.
StageOrder ==
    (lastPass.id # NoId /\ ~lastPass.raised) =>
        LET e == entities[lastPass.id]
        IN IF lastPass.first_ok # None
           THEN /\ lastPass.stage = lastPass.first_ok
                /\ e.resolution_method = lastPass.first_ok
                /\ e.resolution_status = "matched"
                /\ (lastPass.first_ok = "direct_lookup" =>
                        e.resolution_confidence = <<DirectConfidence>>)
           ELSE lastPass.stage \in {"no_match", "fallback"}

\* a direct lookup won although the search held an exact match as well
DirectBeatsFuzzy ==
    /\ lastPass.id # NoId /\ ~lastPass.raised
    /\ lastPass.first_ok = "direct_lookup" /\ lastPass.fuzzy
    /\ entities[lastPass.id].resolution_method = "direct_lookup"
    /\ entities[lastPass.id].resolution_status = "matched"

\* C5: a run that has ended leaves the stored batch status in
\* {completed, failed, partial}.
RunEndsTerminal ==
    run.ended => committed.batch.status \in {"completed", "failed", "partial"}

\* C6: when the pass over an entity raised during a run, the entity is in
\* manual_review, failed_records has grown by one and the run goes on with
\* the loop.
RaiseIsolated ==
    (lastPass.in_batch /\ lastPass.raised) =>
        /\ entities[lastPass.id].resolution_status = "manual_review"
        /\ batch.failed_records = lastPass.failed_before + 1
        /\ run.pc \in {"loop", "finish"}

Raised(done) == Cardinality({i \in DOMAIN done : done[i].raised})

\* C7: after the loop over a non-empty eligible set the status is failed
\* exactly when every processed entity failed, partial exactly when some but
\* not all failed, and completed when none failed.
StatusByFailures ==
    (run.pc = "resolved" /\ run.done # <<>>) =>
        /\ batch.status = "failed" <=> Raised(run.done) = Len(run.done)
        /\ batch.status = "partial" <=>
               (0 < Raised(run.done) /\ Raised(run.done) < Len(run.done))
        /\ Raised(run.done) = 0 => batch.status = "completed"

NonMatched(done) ==
    Cardinality({i \in DOMAIN done : done[i].status # "matched"})

\* C8: from the first counter update of a run to its end, processed_records
\* is matched_records plus the number of entities the run has counted with
\* an outcome other than matched, and is at most total_records.
CountersAgree ==
    (run.done # <<>> /\ ~run.ended) =>
        /\ batch.processed_records = batch.matched_records + NonMatched(run.done)
        /\ batch.processed_records <= batch.total_records

\* counters updated in a run that started with a matched entity and counted
\* both a match and a non-match
CountedWithEarlierMatch ==
    /\ lastPass.in_batch
    /\ run.already_matched > 0
    /\ NonMatched(run.done) > 0
    /\ NonMatched(run.done) < Len(run.done)
    /\ batch.processed_records = batch.total_records

Terminal == {"matched", "confirmed", "no_match", "rejected"}

\* C12: an entity whose status is matched, confirmed, no_match or rejected
\* when a run selects its entities is not passed to resolve_entity by the
\* run and keeps its status and every other field until the run has ended.
TerminalUntouched ==
    \A i \in DOMAIN run.at_start :
        run.at_start[i].resolution_status \in Terminal =>
            /\ entities[i] = run.at_start[i]
            /\ i \notin run.in_flight
            /\ \A k \in DOMAIN run.done : run.done[k].id # i

\* a run resolved an entity next to a confirmed one and a no_match one was
\* reset by reprocess
ConfirmedKept ==
    /\ lastPass.in_batch
    /\ \E i \in DOMAIN run.at_start :
          /\ run.at_start[i].resolution_status = "confirmed"
          /\ entities[i] = run.at_start[i]

\* C14: when the name search of a pass of a run failed, the pass raises, the
\* entity ends in manual_review and failed_records grows by one.
SearchFailureRaises ==
    (lastPass.in_batch /\ lastPass.search_failed) =>
        /\ lastPass.raised
        /\ entities[lastPass.id].resolution_status = "manual_review"
        /\ batch.failed_records = lastPass.failed_before + 1

\* C15: at every moment of a run at most K calls of resolve_entity are in
\* flight, for every limit K >= 1 the run is given (the run never reads K).
InFlightWithinLimit ==
    \A K \in 1..MaxConcurrent : Cardinality(run.in_flight) <= K

\* the second call of a run is in flight after the first has ended
SecondCallInFlight ==
    /\ run.pc = "resolving"
    /\ run.done # <<>>
    /\ Cardinality(run.in_flight) = 1

\* C16: a run that has entered its loop and ended, and in which the flush
\* after a pass failed only where the pass itself had raised out of the
\* session, has called resolve_entity exactly once for each entity that was
\* eligible when it started and has counted each of them once in
\* processed_records.
EachEligibleOnce ==
    (/\ run.ended /\ run.eligible # {}
     /\ \A k \in DOMAIN run.done : run.done[k].flush # "failed") =>
        /\ Len(run.done) = Cardinality(run.eligible)
        /\ {run.done[k].id : k \in DOMAIN run.done} = run.eligible
        /\ batch.processed_records = run.already_matched + Cardinality(run.eligible)

\* C17: each pass of a run adds one to exactly one of matched_records and
\* failed_records.
OneCounterPerRecord ==
    lastPass.in_batch =>
        (batch.matched_records - lastPass.matched_before)
            + (batch.failed_records - lastPass.failed_before) = 1

---------------------------------------------------------------------------
(* Properties of the candidate rows (SpecRequests) *)

RowsOf(id) == {i \in DOMAIN resolutions : resolutions[i].entity_id = id}

\* C3: when a pass reached the search and the search returned N candidates,
\* the entity has exactly N candidate rows once the pass has ended, also
\* when an earlier pass had left the entity in review.
RowsAreCandidates ==
    (/\ lastPass.id # NoId /\ ~lastPass.raised
     /\ lastPass.stage \in {"no_match", "exact_match", "ai_match", "fallback"}) =>
        Cardinality(RowsOf(lastPass.id)) = lastPass.n_candidates

\* C4: no entity has more than one selected candidate row.
AtMostOneSelected ==
    \A id \in DOMAIN entities :
        Cardinality({i \in RowsOf(id) : resolutions[i].is_selected}) <= 1

\* C13: a confirm_resolution call that returned for an existing entity and
\* had resolved a charity number (from the resolution row given, else from
\* the number given) returned the entity confirmed, with method
\* manual_confirm and confidence 1.0; a call given neither returned it
\* rejected.
ConfirmOutcome ==
    \A k \in DOMAIN callLog :
        LET c == callLog[k]
        IN (c.op = "confirm_resolution" /\ ~c.raised) =>
            /\ c.charity_num # None =>
                 /\ c.returned[1].resolution_status = "confirmed"
                 /\ c.returned[1].resolution_method = "manual_confirm"
                 /\ c.returned[1].resolution_confidence = <<DirectConfidence>>
            /\ c.neither => c.returned[1].resolution_status = "rejected"

---------------------------------------------------------------------------
(* OwnershipTreeBuilder behind POST /{entity_id}/build-ownership-tree.      *)
(* Every request has a session of its own and commits when it ends.  A row  *)
(* a session has flushed is seen by that session only until it commits:     *)
(* builders[p].fresh_entities, fresh_ownerships.  A request gives up the    *)
(* processor at each await: the steps below are the stretches between the   *)
(* database calls.  The registry client is taken to answer and the commits  *)
(* to succeed; the tables entities and ownerships hold every flushed row.   *)
(* Tree requests start while no batch run is under way, and committed, the  *)
(* rollback image of a batch run, is brought up to date by the commit that  *)
(* leaves no tree request in flight.                                        *)

Sub(company_number) == [companyNumber |-> company_number]

\* the answers of get_charity_subsidiaries for charity 220949
SubsidiaryLists ==
    {<<>>, <<Sub("01234567")>>, <<Sub(None)>>,
     <<Sub("01234567"), Sub(None)>>,
     <<Sub("01234567"), Sub("01234567")>>,
     <<Sub("01234567"), Sub("07654321")>>}

Registries ==
    {[subsidiaries |-> [n \in CharityNumbers |->
                           IF n = "220949" THEN subs ELSE <<>>],
      found |-> found] :
        subs \in SubsidiaryLists, found \in {CharityNumbers, {"220949"}}}

\* the rows session p does not see
HiddenEntities(p) ==
    UNION {builders[q].fresh_entities : q \in Sessions \ {p}}

HiddenOwnerships(p) ==
    UNION {builders[q].fresh_ownerships : q \in Sessions \ {p}}

\* _get_or_create_subsidiary_entity, lines 277-281
EntitiesByCompany(p, company_number) ==
    {i \in DOMAIN entities \ HiddenEntities(p) :
        entities[i].company_number = company_number}

\* _get_or_create_related_charity, lines 313-317
EntitiesByCharity(p, charity_number) ==
    {i \in DOMAIN entities \ HiddenEntities(p) :
        entities[i].charity_number = charity_number}

\* _create_ownership, lines 372-376
OwnershipsOf(p, owner_id, owned_id) ==
    {i \in DOMAIN ownerships \ HiddenOwnerships(p) :
        ownerships[i].owner_id = owner_id /\ ownerships[i].owned_id = owned_id}

\* _get_or_create_subsidiary_entity, lines 287-298
SubsidiaryEntity(parent, company_number, level) ==
    [original_number |-> None, entity_type |-> "company",
     charity_number |-> None, company_number |-> company_number,
     resolution_status |-> "matched",
     resolution_confidence |-> <<DirectConfidence>>,
     resolution_method |-> "subsidiary_discovery", parent_entity_id |-> parent,
     ownership_level |-> level, trustees |-> <<>>]

\* _get_or_create_related_charity, lines 323-355
RelatedCharity(parent, charity_number, parsed, level) ==
    [original_number |-> None, entity_type |-> "charity",
     charity_number |-> charity_number, company_number |-> None,
     resolution_status |-> "matched",
     resolution_confidence |-> <<DirectConfidence>>,
     resolution_method |-> "related_discovery", parent_entity_id |-> parent,
     ownership_level |-> level, trustees |-> parsed.trustees]

EntityOwnership(owner_id, owned_id, ownership_type) ==
    [owner_id |-> owner_id, owned_id |-> owned_id,
     ownership_type |-> ownership_type]

\* One call of _build_downward_tree on parent: the subsidiaries and the
\* trustees it has still to go through (lines 109-113, 167-168).
Frame(parent, depth) ==
    [kind |-> "down", parent |-> parent, depth |-> depth,
     subsidiaries |-> IF entities[parent].charity_number # None
                      THEN registry.subsidiaries[entities[parent].charity_number]
                      ELSE <<>>,
     trustees |-> entities[parent].trustees,
     owners |-> <<>>]

RECURSIVE OwnersFrom(_, _, _)
\* _build_upward_tree, lines 233-243: the owners of the ownerships session p
\* sees for owned_id = child, in table order from row i on
OwnersFrom(p, child, i) ==
    IF i > Len(ownerships) THEN <<>>
    ELSE (IF i \notin HiddenOwnerships(p) /\ ownerships[i].owned_id = child
          THEN <<ownerships[i].owner_id>> ELSE <<>>)
         \o OwnersFrom(p, child, i + 1)

\* One call of _build_upward_tree on child: the owners it has still to go
\* through.
UpFrame(p, child, depth) ==
    [kind |-> "up", parent |-> child, depth |-> depth,
     subsidiaries |-> <<>>, trustees |-> <<>>,
     owners |-> OwnersFrom(p, child, 1)]

\* a traversal that keeps no set of visited numbers
NeverVisited(number, visited) == FALSE

\* lines 120-121: the company number of the subsidiary is in the set of the
\* numbers this call of build_tree_for_entity has visited
Visited(number, visited) == number # None /\ number \in visited

\* max(max_depth_reached, depth)
Deepest(max_depth_reached, depth) ==
    IF depth > max_depth_reached THEN depth ELSE max_depth_reached

\* a build that goes down whatever direction it was asked for
GoesDownAlways(direction, root_entity) == root_entity.charity_number # None

\* line 71: direction in ("down", "both") and root_entity.charity_number
GoesDown(direction, root_entity) ==
    direction \in {"down", "both"} /\ root_entity.charity_number # None

\* a call that goes on whatever its depth
AnyDepth(current_depth, max_depth) == TRUE

\* lines 102-103 and 226-227: a call with current_depth > max_depth returns
\* at once
WithinDepth(current_depth, max_depth) == current_depth <= max_depth

\* _count_tree_entities, lines 410-416: every node of the lists is counted
\* once, with the nodes below it; nodes holds the nodes of children and
\* parents in the order they were made
_count_tree_entities(nodes) == Len(nodes)

Top(b) == b.stack[Len(b.stack)]

\* the loop the top call is in
Phase(b) == IF Top(b).subsidiaries # <<>> THEN "subsidiary" ELSE "trustee_charity"

\* a loop that takes up the item it has just dealt with again
SameItem(b) == [b EXCEPT !.pc = "walk"]

\* the top call goes on to its next item
NextItem(b) ==
    IF Phase(b) = "subsidiary"
    THEN [b EXCEPT !.stack[Len(b.stack)].subsidiaries = Tail(@), !.pc = "walk"]
    ELSE [b EXCEPT !.stack[Len(b.stack)].trustees = Tail(@), !.pc = "walk"]

\* an exception in the top call: lines 159-164 end the loop over the
\* subsidiaries, lines 214-215 end the trustee at hand
Caught(b) ==
    IF Phase(b) = "subsidiary"
    THEN [b EXCEPT !.stack[Len(b.stack)].subsidiaries = <<>>, !.pc = "walk"]
    ELSE [b EXCEPT !.stack[Len(b.stack)].trustees = Tail(@), !.pc = "walk"]

\* the child has its ownership, lines 142-157 and 208-212: it becomes a node
\* of the tree, and a subsidiary with a charity number is gone into.  The
\* call that is entered sets max_depth_reached to its depth (line 106), the
\* callers keep the maximum (lines 76, 153).  via, depths and expanded say
\* how each node came into the tree, at which depth, and which were gone into;
\* registry_calls counts the calls of get_charity_subsidiaries (line 111) and
\* search_charities (line 173) the build has made.
Descend(b) ==
    LET node == [b EXCEPT !.nodes = Append(@, b.child),
                          !.via = Append(@, Phase(b)),
                          !.depths = Append(@, Top(b).depth)]
    IN IF /\ Phase(b) = "subsidiary"
          /\ entities[b.child].charity_number # None
          /\ WithinDepth(Top(b).depth + 1, b.max_depth)
       THEN [NextItem(node) EXCEPT
                !.stack = Append(@, Frame(b.child, Top(b).depth + 1)),
                !.expanded = Append(@, b.child),
                !.registry_calls = @ + 1,
                !.max_depth_reached = Deepest(@, Top(b).depth + 1)]
       ELSE NextItem(node)

TreeFrame ==
    UNCHANGED <<resolutions, batch, committed, run, openai_client, lastPass,
                registry, callLog>>

\* the entities session p sees
Visible(p) ==
    [i \in DOMAIN entities \ HiddenEntities(p) |-> entities[i]]

\* visited sets that are kept from one build to the next
SeedKeeping(visited, numbers) == visited \cup numbers

\* lines 61-68: the visited set is emptied and the root's number is put in
Seed(visited, numbers) == numbers

\* build_tree_for_entity, lines 54-82, on a root the session sees: the
\* builder as it enters the first traversal.  The rows the session has not
\* committed stay its own, and seeded keeps the visited sets the traversal
\* starts with.
Entered(p, entity_id, max_depth, direction) ==
    LET b == builders[p]
        root_entity == Visible(p)[entity_id]
        down == GoesDown(direction, root_entity)
        up == direction \in {"up", "both"}
        charities == Seed(b.visited_charities,
                          {root_entity.charity_number} \ {None})
        companies == Seed(b.visited_companies,
                          {root_entity.company_number} \ {None})
    IN [IdleBuilder EXCEPT
           !.pc = "walk", !.root = entity_id,
           !.max_depth = max_depth, !.direction = direction,
           !.began = Len(treeLog),
           !.visited_charities = charities,
           !.visited_companies = companies,
           !.seeded = [charities |-> charities, companies |-> companies],
           !.fresh_entities = b.fresh_entities,
           !.fresh_ownerships = b.fresh_ownerships,
           !.carried = [entities |-> b.fresh_entities,
                        ownerships |-> b.fresh_ownerships],
           !.up_pending = (down /\ up),
           !.max_depth_reached = IF down \/ up THEN Deepest(0, 1) ELSE 0,
           !.registry_calls = IF down THEN 1 ELSE 0,
           !.stack = IF down THEN <<Frame(entity_id, 1)>>
                     ELSE IF up THEN <<UpFrame(p, entity_id, 1)>>
                     ELSE <<>>]

\* build_tree_for_entity, lines 47-82: the root is looked up and the first
\* traversal is entered; without the root the call raises
build_tree_for_entity(p, entity_id, max_depth, direction) ==
    /\ builders[p].pc = "idle"
    /\ run.pc = "idle"
    /\ requests < MaxRequests
    /\ LET found == Lookup(Visible(p), entity_id)
       IN /\ builders' =
               IF found = <<>> THEN builders
               ELSE [builders EXCEPT ![p] =
                        Entered(p, entity_id, max_depth, direction)]
          /\ callLog' = Append(callLog,
                 Call("build_tree_for_entity", entity_id,
                      entity_id \notin DOMAIN Visible(p), found = <<>>, FALSE))
    /\ requests' = requests + 1
    /\ UNCHANGED <<entities, ownerships, treeLog>>
    /\ UNCHANGED <<resolutions, batch, committed, run, openai_client, lastPass,
                   registry>>

\* POST /{entity_id}/build-ownership-tree, lines 459-492: an entity of the
\* user that is matched or confirmed, direction "down"
build_entity_ownership_tree(p, entity_id, max_depth) ==
    /\ entity_id \in DOMAIN entities \ HiddenEntities(p)
    /\ entities[entity_id].resolution_status \in {"matched", "confirmed"}
    /\ build_tree_for_entity(p, entity_id, max_depth, "down")

\* build_tree_for_entity, lines 72-93: a traversal has returned; the upward
\* one is entered if it is still to be made, else the tree is returned
build_tree_for_entity_return(p) ==
    LET b == builders[p]
    IN /\ b.pc = "walk"
       /\ b.stack = <<>>
       /\ builders' = [builders EXCEPT ![p] =
            IF b.up_pending
            THEN [b EXCEPT !.up_pending = FALSE,
                           !.stack = <<UpFrame(p, b.root, 1)>>,
                           !.max_depth_reached = Deepest(@, 1)]
            ELSE [b EXCEPT !.pc = "commit"]]
       /\ UNCHANGED <<entities, ownerships, requests, treeLog>>
       /\ TreeFrame

\* the top call goes on to its next ownership
NextOwner(b) == [b EXCEPT !.stack[Len(b.stack)].owners = Tail(@)]

\* _build_upward_tree, lines 219-265: the next ownership of the top call, or
\* its return
_build_upward_tree(p) ==
    LET b == builders[p]
    IN /\ b.pc = "walk"
       /\ b.stack # <<>>
       /\ Top(b).kind = "up"
       /\ builders' = [builders EXCEPT ![p] =
            IF Top(b).owners = <<>>
            THEN [b EXCEPT !.stack = SubSeq(@, 1, Len(@) - 1)]
            ELSE LET owner_id == Head(Top(b).owners)
                     owner == Lookup(Visible(p), owner_id)
                     number == owner[1].charity_number
                     seen == [NextOwner(b) EXCEPT
                                 !.visited_charities = @ \cup ({number} \ {None}),
                                 !.nodes = Append(@, owner_id),
                                 !.via = Append(@, "up"),
                                 !.depths = Append(@, Top(b).depth)]
                 IN IF owner = <<>> THEN NextOwner(b)
                    ELSE IF number # None /\ number \in b.visited_charities
                    THEN NextOwner(b)
                    ELSE IF WithinDepth(Top(b).depth + 1, b.max_depth)
                    THEN [seen EXCEPT
                             !.stack = Append(@, UpFrame(p, owner_id,
                                                         Top(b).depth + 1)),
                             !.max_depth_reached = Deepest(@, Top(b).depth + 1)]
                    ELSE seen]
       /\ UNCHANGED <<entities, ownerships, requests, treeLog>>
       /\ TreeFrame

\* _build_downward_tree, lines 115-131 and 169-197: up to the lookup of the
\* child of the next subsidiary or trustee; scalar_one_or_none raises on more
\* than one row
\* a trustee loop that takes the parent's own number like any other
NeverOwnNumber(charity_num, parent_entity) == FALSE

\* lines 182-183: the charity found for a trustee is the parent itself
OwnNumber(charity_num, parent_entity) ==
    charity_num = parent_entity.charity_number

_build_downward_tree(p) ==
    LET b == builders[p]
    IN /\ b.pc = "walk"
       /\ b.stack # <<>>
       /\ Top(b).kind = "down"
       /\ builders' = [builders EXCEPT ![p] =
            IF Top(b).subsidiaries # <<>>
            THEN LET company_number == Head(Top(b).subsidiaries).companyNumber
                     existing == IF company_number # None
                                 THEN EntitiesByCompany(p, company_number) ELSE {}
                     seen == [b EXCEPT !.visited_companies =
                                           @ \cup ({company_number} \ {None})]
                 IN IF Visited(company_number, b.visited_companies)
                    THEN NextItem([b EXCEPT !.skipped = @ \cup {company_number}])
                    ELSE IF Cardinality(existing) > 1 THEN Caught(seen)
                    ELSE IF existing = {}
                    THEN [seen EXCEPT !.pc = "create", !.create = "subsidiary",
                                      !.number = company_number]
                    ELSE [seen EXCEPT !.pc = "own",
                                      !.child = CHOOSE i \in existing : TRUE]
            ELSE IF Top(b).trustees # <<>>
            THEN LET charity_num == Head(Top(b).trustees)
                     existing == EntitiesByCharity(p, charity_num)
                     called == [b EXCEPT !.registry_calls = @ + 1]
                     seen == [called EXCEPT
                                 !.visited_charities = @ \cup {charity_num}]
                 IN IF \/ charity_num = None
                       \/ charity_num \in b.visited_charities
                       \/ OwnNumber(charity_num, entities[Top(b).parent])
                    THEN NextItem(called)
                    ELSE IF Cardinality(existing) > 1 THEN Caught(seen)
                    ELSE IF existing # {}
                    THEN [seen EXCEPT !.pc = "own",
                                      !.child = CHOOSE i \in existing : TRUE]
                    ELSE IF get_full_charity_details(charity_num, registry.found) # <<>>
                    THEN [seen EXCEPT !.pc = "create", !.create = "related",
                                      !.number = charity_num]
                    ELSE NextItem(seen)
            ELSE [b EXCEPT !.stack = SubSeq(@, 1, Len(@) - 1)]]
       /\ UNCHANGED <<entities, ownerships, requests, treeLog>>
       /\ TreeFrame

\* _get_or_create_subsidiary_entity, lines 286-302, and
\* _get_or_create_related_charity, lines 328-359: the new row and its flush
_get_or_create_entity(p) ==
    LET b == builders[p]
        level == Top(b).depth
        entity ==
            IF b.create = "subsidiary"
            THEN SubsidiaryEntity(Top(b).parent, b.number, level)
            ELSE RelatedCharity(Top(b).parent, b.number,
                                parse_charity_data(RegistryRecord(b.number)), level)
    IN /\ b.pc = "create"
       /\ entities' = Append(entities, entity)
       /\ builders' = [builders EXCEPT ![p] =
            [b EXCEPT !.pc = "own", !.child = Len(entities) + 1,
                      !.fresh_entities = @ \cup {Len(entities) + 1}]]
       /\ UNCHANGED <<ownerships, requests, treeLog>>
       /\ TreeFrame

\* _create_ownership, lines 371-380: the lookup of the relationship
_create_ownership_lookup(p) ==
    LET b == builders[p]
        existing == OwnershipsOf(p, Top(b).parent, b.child)
    IN /\ b.pc = "own"
       /\ builders' = [builders EXCEPT ![p] =
            IF Cardinality(existing) > 1 THEN Caught(b)
            ELSE IF existing # {} THEN Descend(b)
            ELSE [b EXCEPT !.pc = "insert"]]
       /\ UNCHANGED <<entities, ownerships, requests, treeLog>>
       /\ TreeFrame

\* _create_ownership, lines 382-393: the new relationship and its flush
_create_ownership(p) ==
    LET b == builders[p]
    IN /\ b.pc = "insert"
       /\ ownerships' = Append(ownerships,
                               EntityOwnership(Top(b).parent, b.child, Phase(b)))
       /\ builders' = [builders EXCEPT ![p] =
            [Descend(b) EXCEPT !.fresh_ownerships = @ \cup {Len(ownerships) + 1}]]
       /\ UNCHANGED <<entities, requests, treeLog>>
       /\ TreeFrame

\* the tree build_tree_for_entity returns (lines 54-93), with the number of
\* rows the build added
Tree(b) ==
    [root |-> b.root, began |-> b.began,
     entities |-> Cardinality(b.fresh_entities \ b.carried.entities),
     ownerships |-> Cardinality(b.fresh_ownerships \ b.carried.ownerships),
     direction |-> b.direction,
     total_entities |-> 1 + _count_tree_entities(b.nodes),
     nodes |-> b.nodes]

\* database.get_db, lines 33-43: the request ends and its session commits
get_db(p) ==
    LET b == builders[p]
    IN /\ b.pc = "commit"
       /\ b.roots = <<>>
       /\ builders' = [builders EXCEPT ![p] = IdleBuilder]
       /\ treeLog' = Append(treeLog, Tree(b))
       /\ committed' = IF \A q \in Sessions \ {p} : builders[q].pc = "idle"
                       THEN Tables ELSE committed
       /\ UNCHANGED <<entities, ownerships, requests>>
       /\ UNCHANGED <<resolutions, batch, run, openai_client, lastPass, registry,
                      callLog>>

\* a batch whose two rows both matched by the number in their names
Resolved ==
    LET e1 == ExtractionStage(UploadedEntity("220949"), 1, <<>>,
                              Quiet({"220949"}, NoAnswer), FALSE).entity
        e2 == ExtractionStage(UploadedEntity("202918"), 2, <<>>,
                              Quiet({"202918"}, NoAnswer), FALSE).entity
    IN Snapshot(<<e1, e2>>, <<>>, <<>>,
                [UploadedBatch(2, "completed") EXCEPT !.processed_records = 2,
                                                      !.matched_records = 2])

InitTree == InitFrom({Processed, Resolved}, {FALSE}, Registries)

NextTree ==
    \/ \E p \in Sessions, entity_id \in DOMAIN entities, max_depth \in 1..MaxDepth :
          build_entity_ownership_tree(p, entity_id, max_depth)
    \/ \E p \in Sessions : build_tree_for_entity_return(p)
    \/ \E p \in Sessions : _build_downward_tree(p)
    \/ \E p \in Sessions : _get_or_create_entity(p)
    \/ \E p \in Sessions : _create_ownership_lookup(p)
    \/ \E p \in Sessions : _create_ownership(p)
    \/ \E p \in Sessions : get_db(p)

SpecTree == InitTree /\ [][NextTree]_vars

---------------------------------------------------------------------------
(* The services called one after another: confirm_resolution,               *)
(* process_batch and build_tree_for_entity with the id of a row that exists *)
(* or of one that does not, the tree in every direction (GET                *)
(* /{entity_id}/ownership-tree passes direction on and asks for no status). *)
(* The batch holds what earlier requests left behind:                       *)
(*   Grown            Processed, then a tree built from row 1 found the     *)
(*                    subsidiary 01234567 (row 3), which was confirmed as   *)
(*                    charity 202918 by confirm_resolution                  *)
(*   Cyclic           Resolved, where the registry record of 202918 named   *)
(*                    charity 220949 as a trustee when row 2 was resolved,  *)
(*                    then trees built from row 1 and from row 2            *)
(*   CyclicUnmatched  Cyclic, then both rows re-resolved without a result   *)

Grown ==
    LET e3 == [_update_entity_from_charity(
                   SubsidiaryEntity(1, "01234567", 1),
                   parse_charity_data(RegistryRecord("202918")),
                   "manual_confirm", DirectConfidence)
               EXCEPT !.resolution_status = "confirmed"]
    IN [Processed EXCEPT !.entities = Append(@, e3),
                         !.ownerships = <<EntityOwnership(1, 3, "subsidiary")>>]

Cyclic ==
    [Resolved EXCEPT !.entities[2].trustees = <<"220949">>,
                     !.ownerships = <<EntityOwnership(1, 2, "trustee_charity"),
                                      EntityOwnership(2, 1, "trustee_charity")>>]

CyclicUnmatched ==
    [Cyclic EXCEPT !.entities =
        [i \in DOMAIN Cyclic.entities |->
            resolve_entity(ResetEntity(Cyclic.entities[i]), i, <<>>,
                           Quiet({}, NoAnswer), FALSE).entity]]

\* the registry lists the company 01234567 as subsidiary of 220949 and may
\* list one of 202918: another company, or the company that 202918 is itself
\* (a cycle); the other company may be a subsidiary of 220949 as well (a
\* diamond)
DeepRegistries ==
    {[subsidiaries |-> [n \in CharityNumbers |->
                           IF n = "220949" THEN <<Sub("01234567")>> \o more
                           ELSE subs],
      found |-> CharityNumbers] :
        subs \in {<<>>, <<Sub("07654321")>>, <<Sub("01234567")>>},
        more \in {<<>>, <<Sub("07654321")>>}}

Directions == {"up", "down", "both"}

\* EntityResolverService.process_batch, lines 430-438, called by
\* process_batch_background: without the batch the call raises; with it the
\* run goes on in process_batch_begin
process_batch(batch_id, use_ai) ==
    /\ run.pc = "idle" /\ ~run.ended
    /\ \A p \in Sessions : builders[p].pc = "idle"
    /\ LET found == Lookup(<<batch>>, batch_id)
       IN /\ run' = IF found = <<>> THEN [IdleRun EXCEPT !.ended = TRUE]
                    ELSE Schedule(use_ai)
          /\ callLog' = Append(callLog,
                 Call("process_batch", batch_id, batch_id # 1, found = <<>>,
                      FALSE))
    /\ lastPass' = NoPass
    /\ UNCHANGED <<entities, resolutions, ownerships, batch, committed, builders,
                   openai_client, requests, treeLog, registry>>

\* Grown, when the registry names charity 202918 among its own trustees
SelfTrustee == [Grown EXCEPT !.entities[3].trustees = <<"202918">>]

InitWalk ==
    InitFrom({Grown, Cyclic, CyclicUnmatched, SelfTrustee}, {FALSE},
             DeepRegistries)

InitCalls == InitFrom({Grown}, {FALSE}, {NoSubsidiaries})

\* the steps of the tree builder of session p
Walk(p) ==
    \/ build_tree_for_entity_return(p)
    \/ _build_downward_tree(p)
    \/ _build_upward_tree(p)
    \/ _get_or_create_entity(p)
    \/ _create_ownership_lookup(p)
    \/ _create_ownership(p)
    \/ get_db(p)

NextCalls ==
    \/ \E entity_id \in 1..(Len(entities) + 1),
          resolution_id \in 0..(Len(resolutions) + 1),
          charity_number \in CharityNumbers \cup {None} :
            confirm_resolution_call(entity_id, resolution_id, charity_number)
    \/ \E batch_id \in 1..2, use_ai \in BOOLEAN : process_batch(batch_id, use_ai)
    \/ process_batch_begin
    \/ process_batch_background
    \/ _handle_batch_processing_error
    \/ get_db_context
    \/ \E entity_id \in 1..(Len(entities) + 1), max_depth \in 1..MaxDepth,
          direction \in Directions :
            build_tree_for_entity(1, entity_id, max_depth, direction)
    \/ Walk(1)

SpecCalls == InitCalls /\ [][NextCalls]_vars

\* Tree building alone.  A request that has started runs on: the event loop
\* resumes every coroutine whose await has completed, and the registry and
\* the database are taken to answer.
NextWalk ==
    \/ \E entity_id \in DOMAIN entities, max_depth \in 1..MaxDepth,
          direction \in Directions :
            build_tree_for_entity(1, entity_id, max_depth, direction)
    \/ Walk(1)

SpecWalk == InitWalk /\ [][NextWalk]_vars /\ WF_vars(Walk(1))

---------------------------------------------------------------------------
(* Properties of the service calls (SpecCalls, SpecWalk) *)

\* C11: no tree build creates an entity whose ownership_level is greater
\* than the max_depth it was given, in any direction.
CreatedWithinDepth ==
    \A p \in Sessions :
        \A i \in builders[p].fresh_entities :
            entities[i].ownership_level <= builders[p].max_depth

\* a build with max_depth 2 created an entity at level 2, below a subsidiary
\* that is a charity
CreatedAtMaxDepth ==
    \E p \in Sessions :
        /\ builders[p].max_depth = 2
        /\ \E i \in builders[p].fresh_entities : entities[i].ownership_level = 2

\* C18: the total_entities a tree build returns is the number of distinct
\* entities among the root and the nodes of children and parents.
TotalCountsDistinct ==
    \A k \in DOMAIN treeLog :
        treeLog[k].total_entities =
            Cardinality({treeLog[k].root}
                        \cup {treeLog[k].nodes[i] : i \in DOMAIN treeLog[k].nodes})

\* C19: every tree build that has started returns, in each direction and
\* also with cycles in the stored ownerships.
BuildTerminates ==
    \A p \in Sessions : (builders[p].pc # "idle") ~> (builders[p].pc = "idle")

\* a build upward went round the cycle of the ownerships and returned
CycleWalked ==
    \E k \in DOMAIN treeLog :
        /\ treeLog[k].direction = "up"
        /\ \E i \in DOMAIN treeLog[k].nodes : treeLog[k].nodes[i] = treeLog[k].root

\* C20: a call of process_batch, confirm_resolution or build_tree_for_entity
\* with the id of a row that does not exist raised and changed no table.
NotFoundRaises ==
    /\ \A k \in DOMAIN callLog :
          callLog[k].missing => (callLog[k].raised /\ ~callLog[k].changed)
    /\ \A p \in Sessions : builders[p].pc # "idle" => builders[p].root \in DOMAIN entities

\* each of the three services was called with a missing id
EachCalledWithMissingId ==
    \A op \in {"process_batch", "confirm_resolution", "build_tree_for_entity"} :
        \E k \in DOMAIN callLog : callLog[k].op = op /\ callLog[k].missing

---------------------------------------------------------------------------
(* Properties of the tables after tree building (SpecTree) *)

\* C2: every entity whose status is matched or confirmed has a charity
\* number or a company number, and a confidence.
MatchedHasNumber ==
    \A i \in DOMAIN entities :
        entities[i].resolution_status \in {"matched", "confirmed"} =>
            /\ entities[i].charity_number # None \/ entities[i].company_number # None
            /\ entities[i].resolution_confidence # <<>>

\* C9: a tree build on a root that began after an earlier build on the same
\* root had finished adds no entity and no ownership.
RebuildAddsNothing ==
    \A i, j \in DOMAIN treeLog :
        (i < j /\ treeLog[i].root = treeLog[j].root /\ treeLog[j].began >= i) =>
            treeLog[j].entities = 0 /\ treeLog[j].ownerships = 0

StoredEntities == DOMAIN entities \ HiddenEntities(0)
StoredOwnerships == DOMAIN ownerships \ HiddenOwnerships(0)

\* C10: the committed rows hold at most one ownership per (owner, owned)
\* pair and at most one child entity per company number and per charity
\* number, however the tree builds interleave.
NoDuplicates ==
    /\ \A i, j \in StoredOwnerships :
          (/\ ownerships[i].owner_id = ownerships[j].owner_id
           /\ ownerships[i].owned_id = ownerships[j].owned_id) => i = j
    /\ \A i, j \in StoredEntities :
          (/\ entities[i].parent_entity_id # NoId
           /\ entities[j].parent_entity_id # NoId
           /\ \/ /\ entities[i].company_number # None
                 /\ entities[i].company_number = entities[j].company_number
              \/ /\ entities[i].charity_number # None
                 /\ entities[i].charity_number = entities[j].charity_number) => i = j

---------------------------------------------------------------------------
(* The name search on its own (SpecSearch): search_candidates applied to    *)
(* the pages the registry can return.                                       *)

MaxPage == 6          \* charities in one page (page_size = max_results * 2)

Scores == {60, 80, 96}

\* the pages of search_charities: up to MaxPage charities in the order of
\* the registry, each with the similarity of its name to the query
Pages ==
    {[ok |-> FALSE, charities |-> <<>>]} \cup
    UNION {{[ok |-> TRUE,
             charities |-> [i \in 1..n |->
                               Candidate(IF i = 1 THEN "220949" ELSE "202918",
                                         f[i])]]
               : f \in [1..n -> Scores]}
           : n \in 0..MaxPage}

SearchCall(answer, returned) ==
    [op |-> "search_candidates", answer |-> answer, returned |-> returned]

\* one call of EntityResolverService.search_candidates
search_candidates_call(answer) ==
    /\ callLog = <<>>
    /\ callLog' = <<SearchCall(answer, search_candidates(answer))>>
    /\ UNCHANGED <<entities, resolutions, ownerships, batch, committed, run,
                   builders, openai_client, requests, lastPass, treeLog,
                   registry>>

InitSearch == InitFrom({Uploaded(None)}, {FALSE}, {NoSubsidiaries})

NextSearch == \E answer \in Pages : search_candidates_call(answer)

SpecSearch == InitSearch /\ [][NextSearch]_vars

CountAtLeast(s, x) ==
    Cardinality({i \in DOMAIN s : s[i].similarity_score >= x})

\* C27: search_candidates returns at most max_results candidates, in
\* non-increasing order of similarity, and they are the highest-scoring of
\* all the charities the registry returned: for every score x it returns as
\* many candidates of at least x as the registry did, up to max_results.
TopRanked ==
    \A k \in DOMAIN callLog :
        LET all == callLog[k].answer.charities
            returned == callLog[k].returned
        IN /\ Len(returned) <= max_results
           /\ \A i \in 1..(Len(returned) - 1) :
                 returned[i].similarity_score >= returned[i + 1].similarity_score
           /\ \A x \in Scores :
                 CountAtLeast(returned, x) =
                     IF CountAtLeast(all, x) < max_results
                     THEN CountAtLeast(all, x) ELSE max_results

---------------------------------------------------------------------------
(* Properties of the stages of one pass (Spec) *)

\* the rows of entity id for charity number n
RowsFor(id, n) ==
    {i \in DOMAIN resolutions :
        resolutions[i].entity_id = id /\ resolutions[i].charity_number = n}

\* C22: a pass whose search ran, whose top-ranked candidate has a similarity
\* of at least 0.95 and whose details the registry returned, and that did
\* not raise, leaves the entity matched with method exact_match and the
\* similarity as confidence, and the candidate's row selected.
ExactMatchShortcut ==
    (/\ lastPass.id # NoId
     /\ ~lastPass.raised
     /\ lastPass.best # <<>>
     /\ lastPass.fuzzy) =>
        LET best_match == lastPass.best[1]
            entity == entities[lastPass.id]
        IN /\ entity.resolution_method = "exact_match"
           /\ entity.resolution_confidence = <<best_match.similarity_score>>
           /\ entity.resolution_status = "matched"
           /\ RowsFor(lastPass.id, best_match.charity_number) # {}
           /\ \A i \in RowsFor(lastPass.id, best_match.charity_number) :
                 resolutions[i].is_selected

\* a pass of a run took the shortcut with the second of the registry's two
\* charities, ranked first
ShortcutTaken ==
    /\ lastPass.id # NoId
    /\ lastPass.in_batch
    /\ ~lastPass.raised
    /\ lastPass.stage = "exact_match"
    /\ lastPass.n_candidates = 2
    /\ lastPass.best # <<>>
    /\ lastPass.best[1].charity_number = "202918"
    /\ entities[lastPass.id].resolution_confidence = <<96>>

SelectedRows(id) ==
    {i \in DOMAIN resolutions :
        resolutions[i].entity_id = id /\ resolutions[i].is_selected}

\* C23: a pass that ended in the fallback without raising leaves the entity
\* in multiple_matches when the search returned more than one candidate and
\* in manual_review when it returned one, with the similarity of the best
\* candidate as confidence and method needs_review, and has selected no row
\* of the entity.
FallbackOutcome ==
    (/\ lastPass.id # NoId
     /\ ~lastPass.raised
     /\ lastPass.stage = "fallback") =>
        LET entity == entities[lastPass.id]
        IN /\ lastPass.n_candidates >= 1
           /\ entity.resolution_status =
                  IF lastPass.n_candidates > 1 THEN "multiple_matches"
                  ELSE "manual_review"
           /\ lastPass.best # <<>>
           /\ entity.resolution_confidence = <<lastPass.best[1].similarity_score>>
           /\ entity.resolution_method = "needs_review"
           /\ Cardinality(SelectedRows(lastPass.id)) = lastPass.selected_before

\* a pass of a run ended in the fallback with two candidates, one above the
\* threshold whose details the registry did not return
FallbackWithTwo ==
    /\ lastPass.id # NoId
    /\ lastPass.in_batch
    /\ ~lastPass.raised
    /\ lastPass.stage = "fallback"
    /\ lastPass.n_candidates = 2
    /\ entities[lastPass.id].resolution_status = "multiple_matches"
    /\ entities[lastPass.id].resolution_confidence = <<96>>

\* C24: a pass calls the AI only if it was given use_ai, a client is
\* configured, the search returned at least one candidate, and neither the
\* direct lookup nor the number extraction nor the exact-match shortcut
\* resolved the entity: none of them ended the pass and the registry offered
\* none of them the details it needs.
AICalledOnlyWhenNeeded ==
    (lastPass.id # NoId /\ lastPass.ai_called) =>
        /\ lastPass.use_ai
        /\ openai_client
        /\ lastPass.n_candidates >= 1
        /\ lastPass.stage \in {"ai_match", "fallback"}
        /\ lastPass.first_ok \notin {"direct_lookup", "number_extraction",
                                     "exact_match"}

\* a pass of a run called the AI after a shortcut that found a candidate
\* above the threshold and no details for it, and the AI resolved the entity
AICalledAfterShortcut ==
    /\ lastPass.id # NoId
    /\ lastPass.in_batch
    /\ lastPass.ai_called
    /\ lastPass.stage = "ai_match"
    /\ lastPass.best # <<>>
    /\ lastPass.best[1].similarity_score >= ExactThreshold

FallbackStatuses == {"multiple_matches", "manual_review"}

\* C25: a pass that came to the AI stage with use_ai and whose AI was
\* unavailable, raised, selected nothing or gave an index outside the
\* candidate list did not raise and left the entity in the fallback status.
\* (No other failure is injected in the passes of SpecPasses.)
AIFailureFallsThrough ==
    (lastPass.id # NoId /\ lastPass.ai_failure # None) =>
        /\ ~lastPass.raised
        /\ lastPass.stage = "fallback"
        /\ entities[lastPass.id].resolution_status \in FallbackStatuses

\* the AI gave an index outside the list of two candidates
AIIndexOutside ==
    /\ lastPass.id # NoId
    /\ lastPass.ai_called
    /\ lastPass.ai_failure = "index"
    /\ lastPass.n_candidates = 2

\* C26: in a pass every candidate row of the entity is written before any
\* row of the entity is marked selected: the pass adds one row for each
\* candidate of the search, and no add comes after a select.
RowsBeforeSelection ==
    lastPass.id # NoId =>
        /\ Cardinality({i \in DOMAIN lastPass.writes : lastPass.writes[i].op = "add"})
               = lastPass.n_candidates
        /\ \A i, j \in DOMAIN lastPass.writes :
              (lastPass.writes[i].op = "add" /\ lastPass.writes[j].op = "select")
                  => i < j

\* a pass of a run wrote two rows and selected the one the AI chose
TwoRowsThenSelection ==
    /\ lastPass.id # NoId
    /\ lastPass.in_batch
    /\ lastPass.stage = "ai_match"
    /\ Len(lastPass.writes) = 3
    /\ lastPass.writes[3].op = "select"

---------------------------------------------------------------------------
(* Properties of the entities and the trees of a build (SpecWalk) *)

\* C29: every entity a tree build created has a parent, and its
\* ownership_level is the ownership_level of that parent plus one, whatever
\* the ownership_level of the root of the build.
LevelBelowParent ==
    \A p \in Sessions :
        \A i \in builders[p].fresh_entities :
            /\ entities[i].parent_entity_id \in DOMAIN entities
            /\ entities[i].ownership_level =
                   entities[entities[i].parent_entity_id].ownership_level + 1

\* the nodes of builder b that came into the tree as subsidiaries and have
\* company number c
SubsidiaryNodes(b, c) ==
    {i \in DOMAIN b.nodes :
        b.via[i] = "subsidiary" /\ entities[b.nodes[i]].company_number = c}

\* C28: in one call of build_tree_for_entity each company number comes into
\* the tree as a subsidiary at most once, under one parent, is gone into at
\* most once and gets at most one new ownership, also when it is listed
\* under two parents or in a cycle.
CompanyVisitedOnce ==
    \A p \in Sessions : \A c \in CompanyNumbers :
        LET b == builders[p]
        IN /\ Cardinality(SubsidiaryNodes(b, c)) <= 1
           /\ Cardinality({i \in DOMAIN b.expanded :
                              entities[b.expanded[i]].company_number = c}) <= 1
           /\ Cardinality({i \in b.fresh_ownerships :
                              /\ ownerships[i].ownership_type = "subsidiary"
                              /\ entities[ownerships[i].owned_id].company_number = c})
                  <= 1

\* a build from row 1 went into its subsidiary 01234567, found the company
\* 07654321 there and skipped it when the root listed it too (a diamond)
DiamondSkipped ==
    \E p \in Sessions :
        LET b == builders[p]
        IN /\ b.pc = "commit"
           /\ b.root = 1
           /\ b.skipped = {"07654321"}
           /\ Len(b.expanded) = 1
           /\ Cardinality(SubsidiaryNodes(b, "07654321")) = 1

\* a build skipped the company that is its own subsidiary (a cycle)
CycleSkipped ==
    \E p \in Sessions :
        /\ builders[p].pc = "commit"
        /\ builders[p].skipped = {"01234567"}

\* the depth of the deepest node of builder b's tree, 0 without nodes
DeepestNode(b) ==
    IF b.depths = <<>> THEN 0
    ELSE CHOOSE d \in {b.depths[i] : i \in DOMAIN b.depths} :
            \A i \in DOMAIN b.depths : b.depths[i] <= d

\* C30: the max_depth_reached of the tree build_tree_for_entity returns is
\* at most max_depth and is the depth of the deepest node of the tree, 0
\* when the tree has no node.
MaxDepthReachedIsDeepest ==
    \A p \in Sessions :
        builders[p].pc = "commit" =>
            /\ builders[p].max_depth_reached <= builders[p].max_depth
            /\ builders[p].max_depth_reached = DeepestNode(builders[p])

---------------------------------------------------------------------------
(* Properties of the requests for a run (Spec) *)

\* C21: no request starts a run of the batch while the status of the batch
\* is processing, so that at most one run of a batch is under way.
OneRunAtATime ==
    \A i \in DOMAIN run.later : run.later[i] # "processing"

\* C31: a build with direction up creates no entity and no ownership,
\* changes no entity and calls the registry not once: the tables are what
\* the last commit left.
UpOnlyReads ==
    \A p \in Sessions :
        (builders[p].pc # "idle" /\ builders[p].direction = "up") =>
            /\ builders[p].fresh_entities = {}
            /\ builders[p].fresh_ownerships = {}
            /\ builders[p].registry_calls = 0
            /\ entities = committed.entities
            /\ ownerships = committed.ownerships

\* a build upward from row 3, a charity whose subsidiaries the registry
\* lists, found its owner and returned
UpFoundOwner ==
    \E p \in Sessions :
        /\ builders[p].pc = "commit"
        /\ builders[p].direction = "up"
        /\ builders[p].root = 3
        /\ builders[p].nodes = <<1>>
        /\ registry.subsidiaries["202918"] # <<>>


\* ---------------------------------------------------------------------
\* build_trees_for_batch: one tree for each matched root of the batch
\* ---------------------------------------------------------------------

\* build_trees_for_batch, lines 433-441: the matched entities of the batch
\* at ownership level 0, in the order of the table
RootsOf(table) ==
    SelectSeq([i \in DOMAIN table |-> i],
              LAMBDA i : /\ table[i].resolution_status = "matched"
                         /\ table[i].ownership_level = 0)

\* build_trees_for_batch, lines 418-456: the roots are selected and the tree
\* of the first one is entered; without a root the call returns at once
build_trees_for_batch(p, max_depth) ==
    /\ builders[p].pc = "idle"
    /\ run.pc = "idle"
    /\ requests < MaxRequests
    /\ LET root_entities == RootsOf(Visible(p))
       IN builders' =
              [builders EXCEPT ![p] =
                  IF root_entities = <<>> THEN [IdleBuilder EXCEPT !.pc = "commit"]
                  ELSE [Entered(p, Head(root_entities), max_depth, "down")
                            EXCEPT !.roots = Tail(root_entities)]]
    /\ requests' = requests + 1
    /\ UNCHANGED <<entities, resolutions, ownerships, batch, committed, run,
                   openai_client, lastPass, treeLog, registry, callLog>>

\* build_trees_for_batch, lines 448-463: a tree is done and the tree of the
\* next root is entered, in the same session and with the same builder
build_trees_for_batch_next(p) ==
    LET b == builders[p]
    IN /\ b.pc = "commit"
       /\ b.roots # <<>>
       /\ builders' =
              [builders EXCEPT ![p] =
                  [Entered(p, Head(b.roots), b.max_depth, "down")
                       EXCEPT !.roots = Tail(b.roots),
                              !.began = Len(treeLog) + 1]]
       /\ treeLog' = Append(treeLog, Tree(b))
       /\ UNCHANGED <<entities, resolutions, ownerships, batch, committed, run,
                      openai_client, requests, lastPass, registry, callLog>>

InitBatchTrees == InitFrom({Resolved, Grown}, {FALSE}, DeepRegistries)

NextBatchTrees ==
    \/ \E max_depth \in 1..MaxDepth : build_trees_for_batch(1, max_depth)
    \/ build_trees_for_batch_next(1)
    \/ build_tree_for_entity_return(1)
    \/ _build_downward_tree(1)
    \/ _get_or_create_entity(1)
    \/ _create_ownership_lookup(1)
    \/ _create_ownership(1)
    \/ get_db(1)

SpecBatchTrees == InitBatchTrees /\ [][NextBatchTrees]_vars

\* C32: the traversal of every root of build_trees_for_batch starts with
\* visited sets that hold the root's own numbers and nothing else, so that a
\* number met in the tree of an earlier root is not skipped for it.
RootsStartFresh ==
    \A p \in Sessions :
        LET b == builders[p]
        IN (b.pc \in {"walk", "commit"} /\ b.root # NoId) =>
              /\ b.seeded.charities = {entities[b.root].charity_number} \ {None}
              /\ b.seeded.companies = {entities[b.root].company_number} \ {None}

SharedSubsidiaryInBoth ==
    /\ builders[1].pc = "commit"
    /\ builders[1].root = 2
    /\ 3 \in {builders[1].nodes[i] : i \in DOMAIN builders[1].nodes}
    /\ treeLog # <<>>
    /\ treeLog[Len(treeLog)].root = 1
    /\ 3 \in {treeLog[Len(treeLog)].nodes[i] : i \in DOMAIN treeLog[Len(treeLog)].nodes}


\* ---------------------------------------------------------------------
\* Trees on a root that has no ownership yet
\* ---------------------------------------------------------------------

\* Both Records were matched by their numbers; a tree was built down from
\* Record 2 and gave the subsidiary 01234567 (Record 3, owned by 2).  Then
\* Record 2 was resolved again and nothing was found, and Record 3 was
\* confirmed by hand as charity 202918.  Record 1 has no ownership.
GrownAside ==
    LET e2 == resolve_entity(ResetEntity(Resolved.entities[2]), 2, <<>>,
                             Quiet({}, NoAnswer), FALSE).entity
        e3 == [_update_entity_from_charity(
                   SubsidiaryEntity(2, "01234567", 1),
                   parse_charity_data(RegistryRecord("202918")),
                   "manual_confirm", DirectConfidence)
               EXCEPT !.resolution_status = "confirmed"]
    IN [Resolved EXCEPT !.entities = <<Resolved.entities[1], e2, e3>>,
                        !.ownerships = <<EntityOwnership(2, 3, "subsidiary")>>,
                        !.batch.matched_records = 1]

InitAside == InitFrom({GrownAside}, {FALSE}, DeepRegistries)

SpecAside == InitAside /\ [][NextWalk]_vars

\* the ownerships stored before builder b began that have b's root as owner
\* or as owned
StoredEdges(b) ==
    {i \in DOMAIN ownerships \ b.fresh_ownerships :
        b.root \in {ownerships[i].owner_id, ownerships[i].owned_id}}

\* C33: a tree built down from a root that had no ownership has created as
\* many ownerships as it has entities besides the root (total_entities - 1).
EdgesOneLessThanEntities ==
    \A p \in Sessions :
        LET b == builders[p]
        IN (b.pc = "commit" /\ b.direction = "down" /\ StoredEdges(b) = {}) =>
              Cardinality(b.fresh_ownerships \ b.carried.ownerships)
                  = (1 + _count_tree_entities(b.nodes)) - 1


\* ---------------------------------------------------------------------
\* CharityCommissionService: one call of the registry client
\* ---------------------------------------------------------------------

\* @retry(stop=stop_after_attempt(3), ...) on each of the five calls
stop_after_attempt == 3

RegistryCalls ==
    {"search_charities", "get_charity_by_number", "get_charity_trustees",
     "get_charity_accounts", "get_charity_subsidiaries"}

\* What a call is about: the number of a charity the built-in demo data
\* holds (for a search: that charity's name), or None for a number or name
\* the demo data does not hold.
Subjects == CharityNumbers \cup {None}

\* The HTTP status of one request; 0 stands for no response at all (timeout,
\* connection error).
Statuses == {0, 200, 401, 404, 500}

\* _get_mock_search_results and _get_mock_charity_details, lines 119-150 and
\* 190-290: the entries of the demo data for the subject
MockData(subject) == IF subject = None THEN <<>> ELSE <<subject>>

\* the body of the registry's answer to a request that succeeds; the data
\* the registry holds is not part of this model
Json(subject) == <<"json", subject>>

CallReturned(value) == [kind |-> "returned", value |-> value]
CallRaised == [kind |-> "raised", value |-> <<>>]

\* One run of the body of a decorated function, lines 90-117, 162-188,
\* 305-321, 334-350 and 363-380.  sent says whether a request went out.
Body(fn, api_key, subject, status) ==
    IF fn = "search_charities"
    THEN IF ~api_key THEN CallReturned(MockData(subject))
         ELSE IF status = 200 THEN CallReturned(Json(subject))
         ELSE IF status \in {401, 403, 404} THEN CallReturned(MockData(subject))
         ELSE CallRaised
    ELSE IF fn = "get_charity_by_number"
    THEN IF ~api_key THEN CallReturned(MockData(subject))
         ELSE IF status = 404 THEN CallReturned(<<>>)
         ELSE IF status = 200 THEN CallReturned(Json(subject))
         ELSE IF status \in {401, 403} THEN CallReturned(MockData(subject))
         ELSE CallRaised
    ELSE IF status = 404 THEN CallReturned(<<>>)
         ELSE IF status = 200 THEN CallReturned(Json(subject))
         ELSE CallRaised

Sent(fn, api_key) ==
    api_key \/ fn \notin {"search_charities", "get_charity_by_number"}

\* tenacity's retry: the body is run again after it raised, until it has
\* been run stop_after_attempt times
Retries(attempt, outcome) ==
    outcome.kind = "raised" /\ attempt < stop_after_attempt

Attempt(fn, api_key, subject, attempt, status) ==
    LET outcome == Body(fn, api_key, subject, status)
    IN [op |-> fn, api_key |-> api_key, subject |-> subject,
        attempt |-> attempt, sent |-> Sent(fn, api_key), status |-> status,
        outcome |-> outcome, again |-> Retries(attempt, outcome)]

\* a call of one of the five functions begins: the body runs for the first
\* time
registry_call(fn, api_key, subject, status) ==
    /\ callLog = <<>>
    /\ callLog' = <<Attempt(fn, api_key, subject, 1, status)>>
    /\ UNCHANGED <<entities, resolutions, ownerships, batch, committed, run,
                   builders, openai_client, requests, lastPass, treeLog,
                   registry>>

\* the body runs again after it raised
registry_retry(status) ==
    /\ callLog # <<>>
    /\ callLog[Len(callLog)].again
    /\ LET last == callLog[Len(callLog)]
       IN callLog' = Append(callLog,
                            Attempt(last.op, last.api_key, last.subject,
                                    last.attempt + 1, status))
    /\ UNCHANGED <<entities, resolutions, ownerships, batch, committed, run,
                   builders, openai_client, requests, lastPass, treeLog,
                   registry>>

InitClient == InitFrom({Uploaded(None)}, {FALSE}, {NoSubsidiaries})

NextClient ==
    \/ \E fn \in RegistryCalls, api_key \in BOOLEAN, subject \in Subjects,
          status \in Statuses : registry_call(fn, api_key, subject, status)
    \/ \E status \in Statuses : registry_retry(status)

SpecClient == InitClient /\ [][NextClient]_vars

\* C34: a registry call is attempted at most 3 times, and an attempt that is
\* answered with 404 is the last one of its call and returns the negative
\* result (nothing found) without raising.
NotFoundIsNegative ==
    \A i \in DOMAIN callLog :
        /\ callLog[i].attempt <= 3
        /\ (callLog[i].sent /\ callLog[i].status = 404) =>
              /\ ~callLog[i].again
              /\ callLog[i].outcome = CallReturned(<<>>)

\* no call is attempted more than 3 times, and only an attempt that raised
\* is followed by another
AtMostThreeAttempts ==
    \A i \in DOMAIN callLog :
        /\ callLog[i].attempt = i
        /\ i <= 3
        /\ i > 1 => callLog[i - 1].outcome = CallRaised

ThirdAttemptRaised ==
    /\ Len(callLog) = 3
    /\ callLog[3].outcome = CallRaised


\* C35: the resolution_confidence of every Record is null or lies between 0
\* and 1 (0 and 100 hundredths), whichever stage set it.
ConfidenceInUnitInterval ==
    \A i \in DOMAIN entities :
        \A c \in {entities[i].resolution_confidence[k] :
                     k \in DOMAIN entities[i].resolution_confidence} :
            c >= 0 /\ c <= 100


\* C36: a candidate that is selected belongs to a Record whose status is
\* matched or confirmed and whose charity number is the candidate's.
SelectedAgreesWithRecord ==
    \A r \in DOMAIN resolutions :
        resolutions[r].is_selected =>
            /\ entities[resolutions[r].entity_id].resolution_status
                   \in {"matched", "confirmed"}
            /\ entities[resolutions[r].entity_id].charity_number
                   = resolutions[r].charity_number

\* C37: a confirm_resolution call for a Record leaves every candidate of
\* another Record as it was.
ConfirmUsesOwnCandidates ==
    [][(/\ Len(callLog') = Len(callLog) + 1
        /\ callLog'[Len(callLog')].op = "confirm_resolution")
       => \A r \in DOMAIN resolutions :
              resolutions[r].entity_id # callLog'[Len(callLog')].id =>
                  /\ r \in DOMAIN resolutions'
                  /\ resolutions'[r] = resolutions[r]]_vars


\* C38: a Record whose status is confirmed or rejected, which only
\* confirm_resolution sets, is left as it is by every step of batch
\* processing: the triggers, the runs they start and the end of a run's
\* session.
HumanDecisionKept ==
    [][\A i \in DOMAIN entities :
          entities[i].resolution_status \in {"confirmed", "rejected"} =>
              /\ i \in DOMAIN entities'
              /\ entities'[i] = entities[i]]_vars


\* C39: no ownership has the same Record as owner and as owned, whatever the
\* registry lists: also when it lists a company as its own subsidiary or a
\* charity among its own trustees.
NoSelfOwnership ==
    \A i \in DOMAIN ownerships : ownerships[i].owner_id # ownerships[i].owned_id

\* a build went down into Record 3, whose trustee list names its own charity
OwnTrusteePassedOver ==
    \E p \in Sessions :
        /\ builders[p].pc = "commit"
        /\ builders[p].root = 1
        /\ builders[p].expanded = <<3>>
        /\ entities[3].trustees = <<"202918">>

====
